---- MODULE Spec2Model ----
(***************************************************************************)
(* Staged ETL (raw staging, cleaning), curated store and filtered queries  *)
(* of the Music & Mental Health Insights Tool, modelled from src/src.      *)
(*                                                                         *)
(* Text is modelled as a sequence of one-character strings, so that        *)
(* str.strip(), str.lower(), int() and float() are computed character by   *)
(* character.  A Python int is a sign and a sequence of decimal digits     *)
(* (arbitrary precision, as in Python); a Python float is a sign, integer  *)
(* digits and fraction digits, or nan / inf.  Exponent notation, digit     *)
(* separators and non-ASCII characters are outside the modelled alphabet.  *)
(***************************************************************************)
EXTENDS Integers, Sequences, FiniteSets, TLC

VARIABLES
    connection,     \* DatabaseManager.connection is not None
    db,             \* the tables as seen through the connection
    disk,           \* the committed content of the database file
    last,           \* the operation that ran last and what it returned or raised
    arg,            \* input of the pure function under check
    ret,            \* result of the pure function under check
    app,            \* the Flask application: flask.g and the managers it made
    insights        \* an InsightsService instance

vars == <<connection, db, disk, last, arg, ret, app, insights>>

dbvars == <<connection, db, disk, last, app, insights>>

----------------------------------------------------------------------------
(* Bounds *)

MaxPad == 1
MaxCsvRows == 2
MaxRaw == 2
MaxRespondents == 3
MaxHoursRows == 3
MaxRoundTrips == 2
MaxLogRows == 1
MaxRejected == 3
MaxScored == 2
MaxGroupLen == 3
MaxObserved == 3
MaxManagers == 3
MaxRuns == 3

----------------------------------------------------------------------------
(* Text *)

Whitespace == {" ", "\t", "\n"}

UpperLetters == <<"A","B","C","D","E","F","G","H","I","J","K","L","M",
                  "N","O","P","Q","R","S","T","U","V","W","X","Y","Z">>

LowerLetters == <<"a","b","c","d","e","f","g","h","i","j","k","l","m",
                  "n","o","p","q","r","s","t","u","v","w","x","y","z">>

DigitChars == <<"0","1","2","3","4","5","6","7","8","9">>

lower_char(c) ==
    IF \E i \in 1..26 : UpperLetters[i] = c
    THEN LowerLetters[CHOOSE i \in 1..26 : UpperLetters[i] = c]
    ELSE c

upper_char(c) ==
    IF \E i \in 1..26 : LowerLetters[i] = c
    THEN UpperLetters[CHOOSE i \in 1..26 : LowerLetters[i] = c]
    ELSE c

\* str.lower()
lower(s) == [i \in 1..Len(s) |-> lower_char(s[i])]

\* str.upper(), used to build inputs only
upper(s) == [i \in 1..Len(s) |-> upper_char(s[i])]

\* str.capitalize(), used to build inputs only
capitalize(s) ==
    [i \in 1..Len(s) |-> IF i = 1 THEN upper_char(s[i]) ELSE lower_char(s[i])]

RECURSIVE lstrip(_)
lstrip(s) ==
    IF s # <<>> /\ Head(s) \in Whitespace THEN lstrip(Tail(s)) ELSE s

RECURSIVE rstrip(_)
rstrip(s) ==
    IF s # <<>> /\ s[Len(s)] \in Whitespace
    THEN rstrip(SubSeq(s, 1, Len(s) - 1))
    ELSE s

\* str.strip()
strip(s) == rstrip(lstrip(s))

\* Python values: a str, None, or a list (the restkey value of csv.DictReader)
Str(s) == [t |-> "str", s |-> s]
None == [t |-> "none", s |-> <<>>]
List(s) == [t |-> "list", s |-> s]

IsStr(v) == v.t = "str"

\* Padding by at most MaxPad whitespace characters
RECURSIVE PadsOfLen(_)
PadsOfLen(n) ==
    IF n = 0 THEN {<<>>}
    ELSE {<<c>> \o p : c \in Whitespace, p \in PadsOfLen(n - 1)}

Pads == UNION {PadsOfLen(n) : n \in 0..MaxPad}

----------------------------------------------------------------------------
(* models.py: frequency codec *)

w_never == <<"n","e","v","e","r">>
w_rarely == <<"r","a","r","e","l","y">>
w_sometimes == <<"s","o","m","e","t","i","m","e","s">>
w_very_frequently == <<"v","e","r","y"," ","f","r","e","q","u","e","n","t","l","y">>
w_often == <<"o","f","t","e","n">>
w_InvalidLabel == <<"I","n","v","a","l","i","d","L","a","b","e","l">>
w_nevers == <<"n","e","v","e","r","s">>
w_veryfrequently == <<"v","e","r","y","f","r","e","q","u","e","n","t","l","y">>
w_zero == <<"0">>

FREQUENCY_MAPPING ==
    [w \in {w_never, w_rarely, w_sometimes, w_very_frequently} |->
        CASE w = w_never -> 0
          [] w = w_rarely -> 1
          [] w = w_sometimes -> 2
          [] w = w_very_frequently -> 3]

Returned(v) == [raised |-> "none", value |-> v]
Raised(e) == [raised |-> e, value |-> <<>>]

map_frequency_to_numeric_default0(label) ==
    IF ~IsStr(label) THEN Raised("TypeError")
    ELSE LET normalised == lower(strip(label.s)) IN
         IF normalised \notin DOMAIN FREQUENCY_MAPPING THEN Returned(0)
         ELSE Returned(FREQUENCY_MAPPING[normalised])

map_frequency_to_numeric(label) ==
    IF ~IsStr(label) THEN Raised("TypeError")
    ELSE LET normalised == lower(strip(label.s)) IN
         IF normalised = <<>> THEN Raised("ValueError")
         ELSE IF normalised \notin DOMAIN FREQUENCY_MAPPING THEN Raised("ValueError")
         ELSE Returned(FREQUENCY_MAPPING[normalised])

----------------------------------------------------------------------------
(* Python numbers *)

DigitValue(c) == (CHOOSE i \in 1..10 : DigitChars[i] = c) - 1

IsDigit(c) == \E i \in 1..10 : DigitChars[i] = c

AllDigits(s) == s # <<>> /\ \A i \in 1..Len(s) : IsDigit(s[i])

RECURSIVE StripZeros(_)
StripZeros(d) ==
    IF Len(d) > 1 /\ Head(d) = 0 THEN StripZeros(Tail(d)) ELSE d

RECURSIVE StripTrailingZeros(_)
StripTrailingZeros(d) ==
    IF d # <<>> /\ d[Len(d)] = 0
    THEN StripTrailingZeros(SubSeq(d, 1, Len(d) - 1))
    ELSE d

Digits(s) == [i \in 1..Len(s) |-> DigitValue(s[i])]

\* A Python int: sign and magnitude in decimal digits without leading zeros
PyInt(neg, mag) ==
    LET m == StripZeros(mag) IN [neg |-> neg /\ m # <<0>>, mag |-> m]

\* magnitude comparison of digit sequences without leading zeros
MagLt(x, y) ==
    \/ Len(x) < Len(y)
    \/ /\ Len(x) = Len(y)
       /\ \E i \in 1..Len(x) :
            /\ x[i] < y[i]
            /\ \A j \in 1..(i - 1) : x[j] = y[j]

IntLt(a, b) ==
    CASE a.neg /\ ~b.neg -> TRUE
      [] ~a.neg /\ b.neg -> FALSE
      [] ~a.neg /\ ~b.neg -> MagLt(a.mag, b.mag)
      [] a.neg /\ b.neg -> MagLt(b.mag, a.mag)

IntLe(a, b) == a = b \/ IntLt(a, b)

RECURSIVE NatDigits(_)
NatDigits(n) ==
    IF n < 10 THEN <<n>> ELSE Append(NatDigits(n \div 10), n % 10)

\* the Python int of a small natural number
IntOf(n) == [neg |-> FALSE, mag |-> NatDigits(n)]

SignOf(s) == IF s # <<>> /\ Head(s) = "-" THEN TRUE ELSE FALSE

Unsigned(s) == IF s # <<>> /\ Head(s) \in {"+", "-"} THEN Tail(s) ELSE s

\* int(str): ValueError unless [sign] digits, surrounding whitespace ignored
int(s) ==
    LET body == Unsigned(strip(s)) IN
    IF AllDigits(body) THEN Returned(PyInt(SignOf(strip(s)), Digits(body)))
    ELSE Raised("ValueError")

\* A Python float: nan, inf, or a finite decimal [sign] ip . fp
Finite(neg, ip, fp) ==
    LET i == StripZeros(ip)
        f == StripTrailingZeros(fp)
    IN [kind |-> "fin", neg |-> neg /\ ~(i = <<0>> /\ f = <<>>), ip |-> i, fp |-> f]

NaN == [kind |-> "nan", neg |-> FALSE, ip |-> <<0>>, fp |-> <<>>]
Inf(neg) == [kind |-> "inf", neg |-> neg, ip |-> <<0>>, fp |-> <<>>]

w_nan == <<"n","a","n">>
w_inf == <<"i","n","f">>
w_infinity == <<"i","n","f","i","n","i","t","y">>

PointAt(s) == CHOOSE i \in 1..Len(s) : s[i] = "."

\* float(str): ValueError unless [sign] (digits [. digits] | . digits | nan | inf)
float(s) ==
    LET t == strip(s)
        neg == SignOf(t)
        body == Unsigned(t)
    IN  IF lower(body) = w_nan THEN Returned(NaN)
        ELSE IF lower(body) \in {w_inf, w_infinity} THEN Returned(Inf(neg))
        ELSE IF AllDigits(body) THEN Returned(Finite(neg, Digits(body), <<>>))
        ELSE IF \E i \in 1..Len(body) : body[i] = "."
        THEN LET p == PointAt(body)
                 ip == SubSeq(body, 1, p - 1)
                 fp == SubSeq(body, p + 1, Len(body))
             IN  IF /\ (ip # <<>> \/ fp # <<>>)
                    /\ \A i \in 1..Len(ip) : IsDigit(ip[i])
                    /\ \A i \in 1..Len(fp) : IsDigit(fp[i])
                 THEN Returned(Finite(neg,
                                      IF ip = <<>> THEN <<0>> ELSE Digits(ip),
                                      Digits(fp)))
                 ELSE Raised("ValueError")
        ELSE Raised("ValueError")

\* fraction digits compared as decimals: x < y
RECURSIVE FracLt(_, _)
FracLt(x, y) ==
    IF y = <<>> THEN FALSE
    ELSE IF x = <<>> THEN TRUE
    ELSE IF Head(x) # Head(y) THEN Head(x) < Head(y)
    ELSE FracLt(Tail(x), Tail(y))

AbsLt(a, b) ==
    \/ MagLt(a.ip, b.ip)
    \/ (a.ip = b.ip /\ FracLt(a.fp, b.fp))

\* a < b on floats; every comparison with nan is false
FloatLt(a, b) ==
    CASE a.kind = "nan" \/ b.kind = "nan" -> FALSE
      [] a.kind = "inf" -> a.neg /\ ~(b.kind = "inf" /\ b.neg)
      [] b.kind = "inf" -> ~b.neg
      [] a.neg /\ ~b.neg -> TRUE
      [] ~a.neg /\ b.neg -> FALSE
      [] ~a.neg /\ ~b.neg -> AbsLt(a, b)
      [] a.neg /\ b.neg -> AbsLt(b, a)

FloatLe(a, b) ==
    a.kind # "nan" /\ b.kind # "nan" /\ (a = b \/ FloatLt(a, b))

FloatGt(a, b) == FloatLt(b, a)

\* the float of a small natural number
FloatOf(n) == Finite(FALSE, NatDigits(n), <<>>)

----------------------------------------------------------------------------
(* The survey schema (spec.md section 6, tests/test_cleaning.py) *)

Header ==
    <<"Timestamp", "Age", "Primary streaming service", "Hours per day",
      "While working", "Instrumentalist", "Composer", "Fav genre",
      "Exploratory", "Foreign languages", "BPM",
      "Frequency [Pop]", "Frequency [Rock]",
      "Anxiety", "Depression", "Insomnia", "OCD", "Music effects">>

\* csv.DictReader's restkey (None) as a dict key, and what json.dumps makes of it
NoneKey == "<None>"
NullKey == "null"

\* dict order of a row's keys: header order, then the restkey
KeyOrder == Header \o <<NoneKey, NullKey>>

RowKeys(row) == SelectSeq(KeyOrder, LAMBDA k : k \in DOMAIN row)

\* key.startswith("Frequency [") and key.endswith("]"), on the schema's keys
IsFrequencyKey(key) == key \in {"Frequency [Pop]", "Frequency [Rock]"}

\* key[len("Frequency ["):-1]
GenreOfKey(key) ==
    CASE key = "Frequency [Pop]" -> "Pop"
      [] key = "Frequency [Rock]" -> "Rock"

BoolColumns ==
    {"While working", "Instrumentalist", "Composer", "Exploratory", "Foreign languages"}

RequiredColumns ==
    {"Age", "Hours per day", "Anxiety", "Depression", "Insomnia", "OCD"}

\* dict.get(key): None when the key is absent
Get(row, key) == IF key \in DOMAIN row THEN row[key] ELSE None

\* the first exception raised by a sequence of evaluations, in order
HasRaised(results) == \E i \in 1..Len(results) : results[i].raised # "none"

FirstRaised(results) ==
    results[CHOOSE i \in 1..Len(results) :
                /\ results[i].raised # "none"
                /\ \A j \in 1..(i - 1) : results[j].raised = "none"]

\* Optional[int] None
NoneInt == [neg |-> FALSE, mag |-> <<>>]

----------------------------------------------------------------------------
(* cleaning.py *)

\* (value or "").strip(); a non-empty list has no strip()
cleaning_normalise_str(value) ==
    CASE value.t = "none" -> Returned(<<>>)
      [] value.t = "str" -> Returned(strip(value.s))
      [] value.t = "list" ->
            IF value.s = <<>> THEN Returned(<<>>) ELSE Raised("AttributeError")

cleaning_parse_int_required_default0(value) ==
    LET cleaned == cleaning_normalise_str(value) IN
    IF cleaned.raised # "none" THEN cleaned
    ELSE IF cleaned.value = <<>> THEN Returned(IntOf(0))
    ELSE int(cleaned.value)

cleaning_parse_int_required(value) ==
    LET cleaned == cleaning_normalise_str(value) IN
    IF cleaned.raised # "none" THEN cleaned
    ELSE IF cleaned.value = <<>> THEN Raised("ValueError")
    ELSE int(cleaned.value)

cleaning_parse_float_required(value) ==
    LET cleaned == cleaning_normalise_str(value) IN
    IF cleaned.raised # "none" THEN cleaned
    ELSE IF cleaned.value = <<>> THEN Raised("ValueError")
    ELSE float(cleaned.value)

cleaning_parse_int_optional(value) ==
    LET cleaned == cleaning_normalise_str(value) IN
    IF cleaned.raised # "none" THEN cleaned
    ELSE IF cleaned.value = <<>> THEN Returned(NoneInt)
    ELSE int(cleaned.value)

w_yes == <<"y","e","s">>
w_true == <<"t","r","u","e">>
w_1 == <<"1">>
w_y == <<"y">>

cleaning_parse_bool_yes_no_strict(value) ==
    LET cleaned == cleaning_normalise_str(value) IN
    IF cleaned.raised # "none" THEN cleaned
    ELSE IF lower(cleaned.value) \in {w_yes, w_true, w_1, w_y} THEN Returned(TRUE)
    ELSE IF lower(cleaned.value) \in {<<"n","o">>, <<>>} THEN Returned(FALSE)
    ELSE Raised("ValueError")

cleaning_parse_bool_yes_no(value) ==
    LET cleaned == cleaning_normalise_str(value) IN
    IF cleaned.raised # "none" THEN cleaned
    ELSE Returned(lower(cleaned.value) \in {w_yes, w_true, w_1, w_y})

\* the frequency columns of a row, in dict order
FrequencyKeys(row) == SelectSeq(RowKeys(row), IsFrequencyKey)

cleaning_extract_genre_frequencies_skip_unknown(row) ==
    LET keys == FrequencyKeys(row)
        good == SelectSeq(keys, LAMBDA k : map_frequency_to_numeric(row[k]).raised = "none")
    IN  Returned([g \in {GenreOfKey(good[i]) : i \in 1..Len(good)} |->
                    map_frequency_to_numeric(
                        row[CHOOSE k \in DOMAIN row :
                                IsFrequencyKey(k) /\ GenreOfKey(k) = g]).value])

cleaning_extract_genre_frequencies(row) ==
    LET keys == FrequencyKeys(row)
        scores == [i \in 1..Len(keys) |-> map_frequency_to_numeric(row[keys[i]])]
    IN  IF HasRaised(scores) THEN Raised(FirstRaised(scores).raised)
        ELSE Returned([g \in {GenreOfKey(keys[i]) : i \in 1..Len(keys)} |->
                        map_frequency_to_numeric(
                            row[CHOOSE k \in DOMAIN row :
                                    IsFrequencyKey(k) /\ GenreOfKey(k) = g]).value])

\* SurveyResponse(...): __post_init__ accepts every value the parsers return
SurveyResponse(ts, age, service, hours, ww, instr, comp, fav, expl, foreign, bpm, anx, dep, ins, ocd, effects, freqs) ==
    [timestamp |-> ts, age |-> age, primary_streaming_service |-> service,
     hours_per_day |-> hours, while_working |-> ww, instrumentalist |-> instr,
     composer |-> comp, fav_genre |-> fav, exploratory |-> expl,
     foreign_languages |-> foreign, bpm |-> bpm, anxiety_score |-> anx,
     depression_score |-> dep, insomnia_score |-> ins, ocd_score |-> ocd,
     music_effects |-> effects, genre_frequencies |-> freqs]

\* the end of clean_raw_row_to_survey_response on the results p of the parsers,
\* in the order of the calls: the first exception decides, and only ValueError
\* and TypeError are caught
cleaned_of(p) ==
    IF HasRaised(p)
    THEN IF FirstRaised(p).raised \in {"ValueError", "TypeError"}
         THEN Returned(<<>>)
         ELSE Raised(FirstRaised(p).raised)
    ELSE Returned(<<SurveyResponse(p[5].value, p[1].value, p[6].value, p[2].value,
                    p[7].value, p[8].value, p[9].value, p[10].value, p[11].value,
                    p[12].value, p[3].value, p[13].value, p[14].value,
                    p[15].value, p[16].value, p[17].value, p[4].value)>>)

\* Optional[SurveyResponse]: <<>> is None, <<r>> is the response r
clean_raw_row_to_survey_response(raw_row) ==
    cleaned_of(<<cleaning_parse_int_required(Get(raw_row, "Age")),
                 cleaning_parse_float_required(Get(raw_row, "Hours per day")),
                 cleaning_parse_int_optional(Get(raw_row, "BPM")),
                 cleaning_extract_genre_frequencies(raw_row),
                 cleaning_normalise_str(Get(raw_row, "Timestamp")),
                 cleaning_normalise_str(Get(raw_row, "Primary streaming service")),
                 cleaning_parse_bool_yes_no(Get(raw_row, "While working")),
                 cleaning_parse_bool_yes_no(Get(raw_row, "Instrumentalist")),
                 cleaning_parse_bool_yes_no(Get(raw_row, "Composer")),
                 cleaning_normalise_str(Get(raw_row, "Fav genre")),
                 cleaning_parse_bool_yes_no(Get(raw_row, "Exploratory")),
                 cleaning_parse_bool_yes_no(Get(raw_row, "Foreign languages")),
                 cleaning_parse_int_required(Get(raw_row, "Anxiety")),
                 cleaning_parse_int_required(Get(raw_row, "Depression")),
                 cleaning_parse_int_required(Get(raw_row, "Insomnia")),
                 cleaning_parse_int_required(Get(raw_row, "OCD")),
                 cleaning_normalise_str(Get(raw_row, "Music effects"))>>)

----------------------------------------------------------------------------
(* ingestion.py: the parser run at staging time *)

RaisedMsg(e, text, field) == [raised |-> e, value |-> <<text, field>>]

\* (value or "").strip()
ingestion_strip(value) ==
    CASE value.t = "none" -> Returned(<<>>)
      [] value.t = "str" -> Returned(strip(value.s))
      [] value.t = "list" ->
            IF value.s = <<>> THEN Returned(<<>>) ELSE Raised("AttributeError")

ingestion_parse_int_required(value, field_name) ==
    LET stripped == ingestion_strip(value) IN
    IF stripped.raised # "none" THEN stripped
    ELSE IF stripped.value = <<>>
    THEN RaisedMsg("ValueError", "is required but was empty.", field_name)
    ELSE IF int(stripped.value).raised # "none"
    THEN RaisedMsg("ValueError", "Invalid integer for", field_name)
    ELSE int(stripped.value)

ingestion_parse_float_required(value, field_name) ==
    LET stripped == ingestion_strip(value) IN
    IF stripped.raised # "none" THEN stripped
    ELSE IF stripped.value = <<>>
    THEN RaisedMsg("ValueError", "is required but was empty.", field_name)
    ELSE IF float(stripped.value).raised # "none"
    THEN RaisedMsg("ValueError", "Invalid float for", field_name)
    ELSE float(stripped.value)

ingestion_parse_int_or_none(value) ==
    LET stripped == ingestion_strip(value) IN
    IF stripped.raised # "none" THEN stripped
    ELSE IF stripped.value = <<>> THEN Returned(NoneInt)
    ELSE IF int(stripped.value).raised # "none"
    THEN RaisedMsg("ValueError", "Invalid optional integer value", "BPM")
    ELSE int(stripped.value)

ingestion_parse_bool(value) ==
    LET stripped == ingestion_strip(value) IN
    IF stripped.raised # "none" THEN stripped
    ELSE Returned(lower(stripped.value) \in {w_yes, w_true, w_y, w_1})

\* one column of the loop in _extract_genre_frequencies
ingestion_frequency_of(row, column) ==
    IF column = NoneKey THEN Raised("AttributeError")
    ELSE IF ~IsFrequencyKey(column) THEN Returned(0)
    ELSE LET value == IF row[column].t = "none" \/ row[column].s = <<>>
                      THEN Str(<<>>) ELSE row[column]
             score == map_frequency_to_numeric(value)
         IN  IF score.raised = "none" THEN score
             ELSE IF score.raised = "TypeError"
             THEN RaisedMsg("TypeError", "label must be a str", column)
             ELSE IF lower(strip(value.s)) = <<>>
             THEN RaisedMsg("ValueError", "Frequency label must not be empty", column)
             ELSE RaisedMsg("ValueError", "Unknown frequency label", column)

ingestion_extract_genre_frequencies(row) ==
    LET keys == RowKeys(row)
        visits == [i \in 1..Len(keys) |-> ingestion_frequency_of(row, keys[i])]
    IN  IF HasRaised(visits) THEN FirstRaised(visits)
        ELSE Returned([g \in {GenreOfKey(k) : k \in {c \in DOMAIN row : IsFrequencyKey(c)}} |->
                        ingestion_frequency_of(row,
                            CHOOSE k \in DOMAIN row :
                                IsFrequencyKey(k) /\ GenreOfKey(k) = g).value])

\* row.get(key, ""): the default applies only when the key is absent
GetOrEmpty(row, key) == IF key \in DOMAIN row THEN row[key] ELSE Str(<<>>)

\* SurveyResponse.__post_init__ on the text fields the parser passes through
post_init_str(value, attr) ==
    IF value.t = "str" THEN Returned(value.s)
    ELSE RaisedMsg("TypeError", "must be a str", attr)

\* the end of _row_to_survey_response on the results p of the parsers, in the
\* order of the calls: the first exception decides
parsed_of(timestamp, p) ==
    IF HasRaised(p) THEN FirstRaised(p)
    ELSE Returned(<<SurveyResponse(timestamp, p[1].value, p[14].value, p[2].value,
                    p[3].value, p[4].value, p[5].value, p[15].value, p[6].value,
                    p[7].value, p[8].value, p[9].value, p[10].value, p[11].value,
                    p[12].value, p[16].value, p[13].value)>>)

ingestion_row_to_survey_response(row) ==
    parsed_of(GetOrEmpty(row, "Timestamp").s,
              <<ingestion_parse_int_required(GetOrEmpty(row, "Age"), "Age"),
                ingestion_parse_float_required(GetOrEmpty(row, "Hours per day"),
                                               "Hours per day"),
                ingestion_parse_bool(GetOrEmpty(row, "While working")),
                ingestion_parse_bool(GetOrEmpty(row, "Instrumentalist")),
                ingestion_parse_bool(GetOrEmpty(row, "Composer")),
                ingestion_parse_bool(GetOrEmpty(row, "Exploratory")),
                ingestion_parse_bool(GetOrEmpty(row, "Foreign languages")),
                ingestion_parse_int_or_none(GetOrEmpty(row, "BPM")),
                ingestion_parse_int_required(GetOrEmpty(row, "Anxiety"), "Anxiety"),
                ingestion_parse_int_required(GetOrEmpty(row, "Depression"), "Depression"),
                ingestion_parse_int_required(GetOrEmpty(row, "Insomnia"), "Insomnia"),
                ingestion_parse_int_required(GetOrEmpty(row, "OCD"), "OCD"),
                ingestion_extract_genre_frequencies(row),
                post_init_str(GetOrEmpty(row, "Primary streaming service"),
                              "primary_streaming_service"),
                post_init_str(GetOrEmpty(row, "Fav genre"), "fav_genre"),
                post_init_str(GetOrEmpty(row, "Music effects"), "music_effects")>>)

----------------------------------------------------------------------------
(* csv.DictReader and json, as used by etl_stage.py and database.py *)

RECURSIVE Join(_)
Join(fields) ==
    IF fields = <<>> THEN <<>>
    ELSE IF Len(fields) = 1 THEN fields[1]
    ELSE fields[1] \o <<",">> \o Join(Tail(fields))

IndexOf(key) == CHOOSE i \in 1..Len(Header) : Header[i] = key

\* one row of csv.DictReader: short records are filled with None (restval),
\* the surplus fields of long records are collected under the key None
DictReader(fields) ==
    LET n == Len(fields)
        keys == {Header[i] : i \in 1..Len(Header)}
                    \cup (IF n > Len(Header) THEN {NoneKey} ELSE {})
    IN  [k \in keys |->
            IF k = NoneKey THEN List(Join(SubSeq(fields, Len(Header) + 1, n)))
            ELSE IF IndexOf(k) <= n THEN Str(fields[IndexOf(k)])
            ELSE None]

\* json.dumps(dict): the key None is written as "null"
json_key(k) == IF k = NoneKey THEN NullKey ELSE k

\* a str is written as a JSON string, None as null, a list as an array
json_value(v) ==
    [t |-> CASE v.t = "str" -> "string" [] v.t = "none" -> "null" [] v.t = "list" -> "array",
     s |-> v.s]

json_dumps(row) ==
    [j \in {json_key(k) : k \in DOMAIN row} |->
        json_value(row[CHOOSE k \in DOMAIN row : json_key(k) = j])]

\* json.loads(text): a dict with str keys; string -> str, null -> None, array -> list
python_value(j) ==
    [t |-> CASE j.t = "string" -> "str" [] j.t = "null" -> "none" [] j.t = "array" -> "list",
     s |-> j.s]

json_loads(object) == [k \in DOMAIN object |-> python_value(object[k])]

----------------------------------------------------------------------------
(* Field texts of the CSV files the model reads *)

b_empty == <<>>
b_21 == <<"2","1">>
b_0 == <<"0">>
b_007 == <<"0","0","7">>
b_minus3 == <<"-","3">>
b_plus5 == <<"+","5">>
b_4_5 == <<"4",".","5">>
b_1_0 == <<"1",".","0">>
b_dot5 == <<".","5">>
b_abc == <<"a","b","c">>
b_nan == <<"n","a","n">>
b_NaN == <<"N","a","N">>
b_inf == <<"i","n","f">>
b_minus_inf == <<"-","i","n","f">>
b_2pow63 == <<"9","2","2","3","3","7","2","0","3","6","8","5","4","7","7","5","8","0","8">>
b_Yes == <<"Y","e","s">>
b_yes == <<"y","e","s">>
b_YES == <<"Y","E","S">>
b_No == <<"N","o">>
b_true == <<"t","r","u","e">>
b_True == <<"T","r","u","e">>
b_1 == <<"1">>
b_y == <<"y">>
b_Y == <<"Y">>
b_maybe == <<"m","a","y","b","e">>
b_on == <<"o","n">>
b_Sometimes == <<"S","o","m","e","t","i","m","e","s">>
b_SOMETIMES == <<"S","O","M","E","T","I","M","E","S">>
b_never == <<"n","e","v","e","r">>
b_Never == <<"N","e","v","e","r">>
b_Rarely == <<"R","a","r","e","l","y">>
b_Very_frequently == <<"V","e","r","y"," ","f","r","e","q","u","e","n","t","l","y">>
b_InvalidLabel == <<"I","n","v","a","l","i","d","L","a","b","e","l">>
b_Spotify == <<"S","p","o","t","i","f","y">>
b_spotify == <<"s","p","o","t","i","f","y">>
b_Apple_Music == <<"A","p","p","l","e"," ","M","u","s","i","c">>
b_Lofi == <<"L","o","f","i">>
b_Rock == <<"R","o","c","k">>
b_Classical == <<"C","l","a","s","s","i","c","a","l">>
b_Helps == <<"H","e","l","p","s">>
b_Improve == <<"I","m","p","r","o","v","e">>
b_No_effect == <<"N","o"," ","e","f","f","e","c","t">>
b_2022_08_27 == <<"2","0","2","2","-","0","8","-","2","7">>
b_80 == <<"8","0">>
b_5 == <<"5">>
b_4 == <<"4">>
b_3 == <<"3">>
b_2 == <<"2">>
b_17 == <<"1","7">>
b_28 == <<"2","8">>
b_46 == <<"4","6">>
b_4_2 == <<"4",".","2">>
b_2_0 == <<"2",".","0">>
b_minus1_5 == <<"-","1",".","5">>
b_EXTRA == <<"E","X","T","R","A">>
b_25 == <<"2","5">>
b_34 == <<"3","4">>
b_3_0 == <<"3",".","0">>
g_under_18 == <<"<","1","8">>
g_18_24 == <<"1","8","-","2","4">>
g_25_34 == <<"2","5","-","3","4">>
g_35_44 == <<"3","5","-","4","4">>
g_45_54 == <<"4","5","-","5","4">>
g_55_plus == <<"5","5","+">>
g_unknown == <<"t","e","e","n","s">>
h_le_1 == <<"<","=","1">>
h_1_3 == <<"1","-","3">>
h_gt_3 == <<">","3">>
h_unknown == <<"2","-","4">>


----------------------------------------------------------------------------
(* database.py: DatabaseManager over sqlite3 *)

\* a connection's state: the tables it sees (db) and the committed file (disk)
Conn(d, k) == [db |-> d, disk |-> k]

\* the outcome of a call: the connection's state after it, and what the call
\* returned or raised
Outcome(c, result) ==
    [db |-> c.db, disk |-> c.disk, raised |-> result.raised, value |-> result.value]

\* connection.commit()
Commit(c) == Conn(c.db, c.db)

\* the largest magnitude of an SQLite INTEGER, 2^63 - 1
SqliteMaxInteger == <<9,2,2,3,3,7,2,0,3,6,8,5,4,7,7,5,8,0,7>>

\* sqlite3 binds a Python int only if it fits 64 bits (None binds as NULL)
FitsSqliteInteger(p) ==
    \/ p = NoneInt
    \/ ~MagLt(SqliteMaxInteger, p.mag)
    \/ (p.neg /\ p.mag = <<9,2,2,3,3,7,2,0,3,6,8,5,4,7,7,5,8,0,8>>)

IntOfBoolZero(b) == 0

\* int(bool) and bool(int)
IntOfBool(b) == IF b THEN 1 ELSE 0
BoolOfInt(i) == i # 0

\* json.dumps / json.loads of the genre_frequencies mapping
json_dumps_frequencies(freqs) == [t |-> "object", members |-> freqs]
json_loads_frequencies(text) == text.members

RespondentsRow(id, r) ==
    [id |-> id, age |-> r.age,
     primary_streaming_service |-> r.primary_streaming_service,
     timestamp |-> r.timestamp, hours_per_day |-> r.hours_per_day,
     while_working |-> IntOfBool(r.while_working),
     instrumentalist |-> IntOfBool(r.instrumentalist),
     composer |-> IntOfBool(r.composer), fav_genre |-> r.fav_genre,
     exploratory |-> IntOfBool(r.exploratory),
     foreign_languages |-> IntOfBool(r.foreign_languages), bpm |-> r.bpm,
     music_effects |-> r.music_effects,
     genre_frequencies |-> json_dumps_frequencies(r.genre_frequencies)]

HealthStatsRow(id, respondent_id, r) ==
    [id |-> id, respondent_id |-> respondent_id, anxiety |-> r.anxiety_score,
     depression |-> r.depression_score, insomnia |-> r.insomnia_score,
     ocd |-> r.ocd_score]

\* the first INSERT of insert_survey_response
InsertRespondent(d, r) ==
    [d EXCEPT !.Respondents = Append(@, RespondentsRow(d.autoinc.Respondents + 1, r)),
              !.autoinc.Respondents = @ + 1]

\* the second INSERT of insert_survey_response
InsertHealthStats(d, respondent_id, r) ==
    [d EXCEPT !.HealthStats =
                    Append(@, HealthStatsRow(d.autoinc.HealthStats + 1, respondent_id, r)),
              !.autoinc.HealthStats = @ + 1]

NoConnectionCheck == Returned(<<>>)

NoConnection == Raised("RuntimeError")

\* insert_survey_response on an open connection: the first INSERT fails when
\* age or bpm does not fit an INTEGER (OverflowError) or hours_per_day is nan,
\* which sqlite3 binds as NULL (IntegrityError, NOT NULL); the second INSERT
\* fails when a score does not fit, after the first one has run; there is no
\* rollback
insert_survey_response(c, response) ==
    IF ~FitsSqliteInteger(response.age) \/ ~FitsSqliteInteger(response.bpm)
    THEN Outcome(c, Raised("OverflowError"))
    ELSE IF response.hours_per_day.kind = "nan"
    THEN Outcome(c, Raised("IntegrityError"))
    ELSE LET respondent_id == c.db.autoinc.Respondents + 1
             d1 == InsertRespondent(c.db, response)
         IN  IF \/ ~FitsSqliteInteger(response.anxiety_score)
                \/ ~FitsSqliteInteger(response.depression_score)
                \/ ~FitsSqliteInteger(response.insomnia_score)
                \/ ~FitsSqliteInteger(response.ocd_score)
             THEN Outcome(Conn(d1, c.disk), Raised("OverflowError"))
             ELSE Outcome(Commit(Conn(InsertHealthStats(d1, respondent_id, response),
                                      c.disk)),
                          Returned(respondent_id))

\* delete_respondent_and_health_stats on an open connection
delete_respondent_only(c, respondent_id) ==
    LET d2 == [c.db EXCEPT !.Respondents =
                    SelectSeq(@, LAMBDA row : row.id # respondent_id)]
    IN  Outcome(Commit(Conn(d2, c.disk)), Returned(<<>>))

delete_respondent_and_health_stats(c, respondent_id) ==
    LET d1 == [c.db EXCEPT !.HealthStats =
                    SelectSeq(@, LAMBDA h : h.respondent_id # respondent_id)]
        d2 == [d1 EXCEPT !.Respondents =
                    SelectSeq(@, LAMBDA row : row.id # respondent_id)]
    IN  Outcome(Commit(Conn(d2, c.disk)), Returned(<<>>))

\* SQL NULL in a TEXT column
Null == <<>>

\* insert_raw_response on an open connection
insert_raw_response(c, raw_row, error) ==
    LET id == c.db.autoinc.RawResponses + 1
        d1 == [c.db EXCEPT !.RawResponses =
                        Append(@, [id |-> id, raw_json |-> json_dumps(raw_row),
                                   ingestion_error |-> error]),
                           !.autoinc.RawResponses = id]
    IN  Outcome(Commit(Conn(d1, c.disk)), Returned(id))

get_all_raw_responses_descending(d) ==
    [i \in 1..Len(d.RawResponses) |->
        json_loads(d.RawResponses[Len(d.RawResponses) + 1 - i].raw_json)]

\* get_all_raw_responses on an open connection
get_all_raw_responses(d) ==
    [i \in 1..Len(d.RawResponses) |-> json_loads(d.RawResponses[i].raw_json)]

\* _count_rows
get_respondent_count(d) == Len(d.Respondents)
get_raw_row_count(d) == Len(d.RawResponses)
get_rejected_row_count(d) == Len(d.RejectedRows)

\* filters.py AGE_GROUP_RULES: label -> (min_age, max_age), None is unbounded
AGE_GROUP_RULES ==
    [label \in {g_under_18, g_18_24, g_25_34, g_35_44, g_45_54, g_55_plus} |->
        CASE label = g_under_18 -> <<NoneInt, IntOf(17)>>
          [] label = g_18_24 -> <<IntOf(18), IntOf(24)>>
          [] label = g_25_34 -> <<IntOf(25), IntOf(34)>>
          [] label = g_35_44 -> <<IntOf(35), IntOf(44)>>
          [] label = g_45_54 -> <<IntOf(45), IntOf(54)>>
          [] label = g_55_plus -> <<IntOf(55), NoneInt>>]

\* FilterCriteria(...): Optional fields, <<>> is None and <<v>> is the value v
FilterCriteria(age_group, streaming_service, favourite_genre, music_effects, while_working, exploratory, foreign_languages, instrumentalist, composer, hours_bucket) ==
    [age_group |-> age_group, streaming_service |-> streaming_service,
     favourite_genre |-> favourite_genre, music_effects |-> music_effects,
     while_working |-> while_working, exploratory |-> exploratory,
     foreign_languages |-> foreign_languages, instrumentalist |-> instrumentalist,
     composer |-> composer, hours_bucket |-> hours_bucket]

\* truth value of an Optional[str]: neither None nor ""
Truthy(opt) == opt # <<>> /\ opt[1] # <<>>

\* _hours_bucket_filters: the clauses as a predicate on hours_per_day
hours_bucket_filters(bucket) ==
    IF bucket \in {h_le_1, h_1_3, h_gt_3} THEN Returned(bucket)
    ELSE Raised("ValueError")

HoursClause(bucket, hours) ==
    CASE bucket = h_le_1 -> FloatLe(hours, FloatOf(1))
      [] bucket = h_1_3 -> FloatGt(hours, FloatOf(1)) /\ FloatLe(hours, FloatOf(3))
      [] bucket = h_gt_3 -> FloatGt(hours, FloatOf(3))

BoolFilterClauseTruthy(value, column) ==
    value = <<>> \/ ~value[1] \/ column = IntOfBool(value[1])

\* a boolean filter: "if value is not None: column = int(value)"
BoolFilterClause(value, column) == value = <<>> \/ column = IntOfBool(value[1])

\* the WHERE clause of get_clean_responses_filtered on a Respondents row
Where(criteria, row) ==
    /\ (Truthy(criteria.age_group) /\ criteria.age_group[1] \in DOMAIN AGE_GROUP_RULES) =>
            LET bounds == AGE_GROUP_RULES[criteria.age_group[1]] IN
            /\ bounds[1] # NoneInt => IntLe(bounds[1], row.age)
            /\ bounds[2] # NoneInt => IntLe(row.age, bounds[2])
    /\ Truthy(criteria.streaming_service) =>
            row.primary_streaming_service = criteria.streaming_service[1]
    /\ Truthy(criteria.favourite_genre) => row.fav_genre = criteria.favourite_genre[1]
    /\ Truthy(criteria.music_effects) => row.music_effects = criteria.music_effects[1]
    /\ BoolFilterClause(criteria.while_working, row.while_working)
    /\ BoolFilterClause(criteria.instrumentalist, row.instrumentalist)
    /\ BoolFilterClause(criteria.composer, row.composer)
    /\ BoolFilterClause(criteria.exploratory, row.exploratory)
    /\ BoolFilterClause(criteria.foreign_languages, row.foreign_languages)
    /\ Truthy(criteria.hours_bucket) =>
            HoursClause(criteria.hours_bucket[1], row.hours_per_day)

\* DatabaseManager._row_to_survey_response on a joined row
database_row_to_survey_response(row, h) ==
    SurveyResponse(row.timestamp, row.age, row.primary_streaming_service,
                   row.hours_per_day, BoolOfInt(row.while_working),
                   BoolOfInt(row.instrumentalist), BoolOfInt(row.composer),
                   row.fav_genre, BoolOfInt(row.exploratory),
                   BoolOfInt(row.foreign_languages), row.bpm, h.anxiety,
                   h.depression, h.insomnia, h.ocd, row.music_effects,
                   json_loads_frequencies(row.genre_frequencies))

\* Respondents INNER JOIN HealthStats ON Respondents.id = HealthStats.respondent_id
\* ORDER BY Respondents.id ASC, as pairs of row indexes
RECURSIVE JoinFrom(_, _)
JoinFrom(d, i) ==
    IF i > Len(d.Respondents) THEN <<>>
    ELSE LET hs == SelectSeq(d.HealthStats,
                             LAMBDA h : h.respondent_id = d.Respondents[i].id)
         IN  [k \in 1..Len(hs) |-> <<d.Respondents[i], hs[k]>>] \o JoinFrom(d, i + 1)

Joined(d) == JoinFrom(d, 1)

LimitTail(rows, limit) ==
    IF limit.t = "none" \/ limit.v >= Len(rows) THEN rows
    ELSE SubSeq(rows, Len(rows) - limit.v + 1, Len(rows))

\* LIMIT ?
Limit(rows, limit) ==
    IF limit.t = "none" \/ limit.v >= Len(rows) THEN rows
    ELSE SubSeq(rows, 1, limit.v)

NoLimit == [t |-> "none", v |-> 0]
IntLimit(n) == [t |-> "int", v |-> n]

\* get_clean_responses_filtered on an open connection
get_clean_responses_filtered(d, criteria, limit) ==
    IF limit.t # "none" /\ (limit.t # "int" \/ limit.v <= 0) THEN Raised("ValueError")
    ELSE IF Truthy(criteria.hours_bucket)
            /\ hours_bucket_filters(criteria.hours_bucket[1]).raised # "none"
    THEN Raised("ValueError")
    ELSE LET rows == SelectSeq(Joined(d), LAMBDA j : Where(criteria, j[1]))
             limited == Limit(rows, limit)
         IN  Returned([i \in 1..Len(limited) |->
                        database_row_to_survey_response(limited[i][1], limited[i][2])])

\* get_all_clean_responses on an open connection
get_all_clean_responses(d) ==
    LET rows == Joined(d) IN
    Returned([i \in 1..Len(rows) |->
                database_row_to_survey_response(rows[i][1], rows[i][2])])

----------------------------------------------------------------------------
(* etl_stage.py and etl_clean.py *)

Caught == {"ValueError", "TypeError"}

RECURSIVE ingest_rows(_, _)

\* one turn of the loop of ingest_csv_into_raw_database: the row is inserted in
\* the finally clause, whatever the parser did, and an exception that the except
\* clause does not catch leaves the loop after it
ingest_row(c, row, parsed, rest) ==
    IF parsed.raised \in Caught
    THEN ingest_rows(insert_raw_response(c, row, parsed.value), rest)
    ELSE IF parsed.raised = "none"
    THEN ingest_rows(insert_raw_response(c, row, Null), rest)
    ELSE Outcome(insert_raw_response(c, row, Null), Raised(parsed.raised))

\* the loop of ingest_csv_into_raw_database over the records that are left
ingest_rows(c, records) ==
    IF records = <<>> THEN Outcome(c, Returned(<<>>))
    ELSE ingest_row(c, DictReader(Head(records)),
                    ingestion_row_to_survey_response(DictReader(Head(records))),
                    Tail(records))

Summary(raw_total, cleaned_inserted, cleaned_dropped) ==
    [raw_total |-> raw_total, cleaned_inserted |-> cleaned_inserted,
     cleaned_dropped |-> cleaned_dropped]

RECURSIVE clean_rows(_, _, _, _, _)

\* insert_survey_response(cleaned); cleaned_inserted += 1
clean_inserted(inserted, rest, raw_total, cleaned_inserted, cleaned_dropped) ==
    IF inserted.raised # "none" THEN inserted
    ELSE clean_rows(inserted, rest, raw_total, cleaned_inserted + 1, cleaned_dropped)

\* one turn of the loop of clean_raw_responses_into_database
clean_row(c, cleaned, rest, raw_total, cleaned_inserted, cleaned_dropped) ==
    IF cleaned.raised # "none" THEN Outcome(c, Raised(cleaned.raised))
    ELSE IF cleaned.value = <<>>
    THEN clean_rows(c, rest, raw_total, cleaned_inserted, cleaned_dropped + 1)
    ELSE clean_inserted(insert_survey_response(c, cleaned.value[1]), rest,
                        raw_total, cleaned_inserted, cleaned_dropped)

\* the loop of clean_raw_responses_into_database over the rows that are left
clean_rows(c, raw_rows, raw_total, cleaned_inserted, cleaned_dropped) ==
    IF raw_rows = <<>>
    THEN Outcome(c, Returned(Summary(raw_total, cleaned_inserted, cleaned_dropped)))
    ELSE clean_row(c, clean_raw_row_to_survey_response(Head(raw_rows)),
                   Tail(raw_rows), raw_total, cleaned_inserted, cleaned_dropped)

clean_raw_responses_into_database_run(c) ==
    clean_rows(c, get_all_raw_responses(c.db), get_raw_row_count(c.db), 0, 0)

----------------------------------------------------------------------------
(* Inputs of the pure functions *)

NotRun == [raised |-> "notrun", value |-> <<>>]
NoArg == [kind |-> "none"]

\* the valid record of tests/test_cleaning.py, with a second frequency column
ValidRecord ==
    <<b_2022_08_27, b_21, b_Spotify, b_4_5, b_Yes, b_No, b_No, b_Lofi, b_Yes,
      b_No, b_80, b_Sometimes, b_Never, b_5, b_4, b_3, b_2, b_Helps>>

Bodies ==
    {b_empty, b_21, b_0, b_007, b_minus3, b_plus5, b_4_5, b_1_0, b_dot5, b_abc,
     b_nan, b_NaN, b_inf, b_minus_inf, b_2pow63, b_Yes, b_yes, b_YES, b_No,
     b_true, b_True, b_1, b_y, b_Y, b_maybe, b_on, b_Sometimes, b_SOMETIMES,
     b_never, b_Rarely, b_Very_frequently, b_InvalidLabel, b_Spotify}

\* a CSV record as get_all_raw_responses returns it after staging
StagedRow(fields) == json_loads(json_dumps(DictReader(fields)))

\* a dict without one of its keys
Without(row, key) == [k \in DOMAIN row \ {key} |-> row[k]]

\* a staged row: the valid record with one field replaced by a padded text,
\* or cut short, or with a surplus field; or the valid dict with one key
\* absent or mapped to None
CleanerCases(pads) ==
    {[kind |-> "field", row |-> StagedRow([ValidRecord EXCEPT ![i] = l \o b \o r]),
      column |-> Header[i], body |-> b, n |-> Len(Header)] :
        i \in 1..Len(Header), b \in Bodies, l \in pads, r \in pads}
    \cup {[kind |-> "short", row |-> StagedRow(SubSeq(ValidRecord, 1, n)),
           column |-> Header[n + 1], body |-> <<>>, n |-> n] :
            n \in 1..(Len(Header) - 1)}
    \cup {[kind |-> "long", row |-> StagedRow(Append(ValidRecord, b_EXTRA)),
           column |-> NoneKey, body |-> b_EXTRA, n |-> Len(Header) + 1]}
    \cup {[kind |-> "absent", row |-> Without(StagedRow(ValidRecord), Header[i]),
           column |-> Header[i], body |-> <<>>, n |-> Len(Header)] :
            i \in 1..Len(Header)}
    \cup {[kind |-> "null", row |-> [StagedRow(ValidRecord) EXCEPT ![Header[i]] = None],
           column |-> Header[i], body |-> <<>>, n |-> Len(Header)] :
            i \in 1..Len(Header)}

CodecWords ==
    {w_never, w_rarely, w_sometimes, w_very_frequently, w_often, w_InvalidLabel,
     w_nevers, w_veryfrequently, w_zero, <<>>}

Casings(w) == {w, upper(w), capitalize(w)}

\* a label is a word of some casing between paddings; None is not a str
CodecCases(pads) ==
    UNION {{[kind |-> "label", label |-> Str(l \o c \o r), word |-> w] :
                c \in Casings(w), l \in pads, r \in pads} : w \in CodecWords}
    \cup {[kind |-> "label", label |-> None, word |-> <<>>]}

\* a database file on which create_tables has run
EmptyStore ==
    [RawResponses |-> <<>>, Respondents |-> <<>>, HealthStats |-> <<>>,
     RejectedRows |-> <<>>,
     autoinc |-> [RawResponses |-> 0, Respondents |-> 0, HealthStats |-> 0,
                  RejectedRows |-> 0]]

\* no request is being served
NoApp == [active |-> FALSE]

\* no service has been built
NoService == [built |-> FALSE]

InitDb ==
    /\ connection = FALSE
    /\ db = EmptyStore
    /\ disk = EmptyStore
    /\ last = [op |-> "none"]
    /\ app = NoApp
    /\ insights = NoService

\* map_frequency_to_numeric applied to one label
InitCodec ==
    /\ InitDb
    /\ arg \in CodecCases(Pads)
    /\ ret = NotRun

Encode ==
    /\ ret = NotRun
    /\ arg.kind = "label"
    /\ ret' = map_frequency_to_numeric(arg.label)
    /\ UNCHANGED <<arg, dbvars>>

NextCodec == Encode

SpecCodec == InitCodec /\ [][NextCodec]_vars

\* clean_raw_row_to_survey_response applied to one staged row
InitCleaner ==
    /\ InitDb
    /\ arg \in CleanerCases(Pads)
    /\ ret = NotRun

CleanRow ==
    /\ ret = NotRun
    /\ arg.kind \in {"field", "short", "long", "absent", "null"}
    /\ ret' = clean_raw_row_to_survey_response(arg.row)
    /\ UNCHANGED <<arg, dbvars>>

NextCleaner == CleanRow

SpecCleaner == InitCleaner /\ [][NextCleaner]_vars

----------------------------------------------------------------------------
(* Oracles: what the texts of the input universe denote *)

VocabularyCode(w) ==
    CASE w = w_never -> 0
      [] w = w_rarely -> 1
      [] w = w_sometimes -> 2
      [] w = w_very_frequently -> 3
      [] OTHER -> -1

IntNumerals == {b_21, b_0, b_007, b_minus3, b_plus5, b_2pow63, b_1}

FloatNumerals ==
    IntNumerals \cup {b_4_5, b_1_0, b_dot5, b_nan, b_NaN, b_inf, b_minus_inf}

NumeralsOf(column) ==
    IF column = "Hours per day" THEN FloatNumerals ELSE IntNumerals

TruthyBodies == {b_Yes, b_yes, b_YES, b_true, b_True, b_1, b_y, b_Y}

BodyFrequencyCode(b) ==
    CASE b \in {b_never} -> 0
      [] b = b_Rarely -> 1
      [] b \in {b_Sometimes, b_SOMETIMES} -> 2
      [] b = b_Very_frequently -> 3
      [] OTHER -> -1

\* the columns a case leaves without a text
MissingColumns(c) ==
    CASE c.kind = "short" -> {Header[i] : i \in (c.n + 1)..Len(Header)}
      [] c.kind \in {"absent", "null"} -> {c.column}
      [] OTHER -> {}

\* a required field of the case is missing, empty after trimming or non-numeric
RequiredFieldBad(c) ==
    \/ MissingColumns(c) \cap RequiredColumns # {}
    \/ /\ c.kind = "field"
       /\ c.column \in RequiredColumns
       /\ c.body \notin NumeralsOf(c.column)

BoolAttr(r, column) ==
    CASE column = "While working" -> r.while_working
      [] column = "Instrumentalist" -> r.instrumentalist
      [] column = "Composer" -> r.composer
      [] column = "Exploratory" -> r.exploratory
      [] column = "Foreign languages" -> r.foreign_languages

\* the truth value the case gives to a boolean column
ExpectedBool(c, column) ==
    IF column \in MissingColumns(c) THEN FALSE
    ELSE IF c.kind = "field" /\ c.column = column THEN c.body \in TruthyBodies
    ELSE column \in {"While working", "Exploratory"}

Cleaned == ret # NotRun /\ arg.kind \in {"field", "short", "long", "absent", "null"}

Accepted == Cleaned /\ ret.raised = "none" /\ ret.value # <<>>

----------------------------------------------------------------------------
(* Claims about the pure functions *)

C6_FrequenciesStrict ==
    Accepted =>
        LET r == ret.value[1]
            absent == IF arg.kind = "absent" THEN {arg.column} ELSE {}
            columns == {"Frequency [Pop]", "Frequency [Rock]"} \ absent
        IN
        /\ (MissingColumns(arg) \ absent) \cap columns = {}
        /\ DOMAIN r.genre_frequencies
                = {"Pop" : c \in columns \cap {"Frequency [Pop]"}}
                    \cup {"Rock" : c \in columns \cap {"Frequency [Rock]"}}
        /\ \A g \in DOMAIN r.genre_frequencies : r.genre_frequencies[g] \in 0..3
        /\ (arg.kind = "field" /\ arg.column \in columns) =>
                /\ BodyFrequencyCode(arg.body) \in 0..3
                /\ r.genre_frequencies[IF arg.column = "Frequency [Pop]"
                                       THEN "Pop" ELSE "Rock"]
                        = BodyFrequencyCode(arg.body)
        /\ ("Frequency [Pop]" \in columns
                /\ ~(arg.kind = "field" /\ arg.column = "Frequency [Pop]")) =>
                r.genre_frequencies["Pop"] = 2
        /\ ("Frequency [Rock]" \in columns
                /\ ~(arg.kind = "field" /\ arg.column = "Frequency [Rock]")) =>
                r.genre_frequencies["Rock"] = 0

C6_Witness ==
    /\ Accepted
    /\ arg.kind = "field" /\ arg.column = "Frequency [Rock]"
    /\ arg.body = b_Very_frequently
    /\ ret.value[1].genre_frequencies = [g \in {"Pop", "Rock"} |->
                                            IF g = "Pop" THEN 2 ELSE 3]

\* C7: map_frequency_to_numeric returns 0, 1, 2, 3 for never, rarely,
\* sometimes, very frequently after trimming and case-folding, and raises for
\* every other input, the empty and the whitespace-only label included.
C7_FrequencyCodec ==
    (ret # NotRun /\ arg.kind = "label") =>
        IF IsStr(arg.label) /\ VocabularyCode(arg.word) >= 0
        THEN ret = Returned(VocabularyCode(arg.word))
        ELSE ret.raised \in {"ValueError", "TypeError"}

C7_Witness ==
    /\ ret = Returned(2)
    /\ arg.kind = "label"
    /\ arg.label = Str(<<" ">> \o capitalize(w_sometimes) \o <<" ">>)

----------------------------------------------------------------------------
(* The store and the pipeline as a state machine *)

\* records in the manner of tests/test_database.py, with ages and hours on the
\* edges of an age group and of an hours bucket, and records that the pipeline
\* does not take: an empty Age, hours nan, a score of 2^63, a surplus field, a
\* missing last field
rec_teen ==
    <<b_2022_08_27, b_17, b_Spotify, b_1_0, b_Yes, b_No, b_No, b_Lofi, b_Yes,
      b_Yes, b_80, b_Sometimes, b_Never, b_5, b_4, b_3, b_2, b_Improve>>

rec_adult ==
    <<b_2022_08_27, b_25, b_Apple_Music, b_3_0, b_No, b_No, b_No, b_Rock, b_No,
      b_No, b_empty, b_Rarely, b_Very_frequently, b_5, b_4, b_3, b_2, b_Improve>>

rec_older ==
    <<b_2022_08_27, b_34, b_Spotify, b_4_2, b_No, b_Yes, b_No, b_Classical, b_No,
      b_Yes, b_80, b_Never, b_Never, b_2, b_2, b_2, b_2, b_No_effect>>

rec_empty_age == [rec_teen EXCEPT ![2] = b_empty]
rec_nan_hours == [rec_teen EXCEPT ![4] = b_nan]
rec_big_anxiety == [rec_adult EXCEPT ![14] = b_2pow63]
rec_long == Append(rec_adult, b_EXTRA)
rec_short == SubSeq(rec_teen, 1, Len(Header) - 1)

Records ==
    {rec_teen, rec_adult, rec_empty_age, rec_nan_hours, rec_big_anxiety,
     rec_long, rec_short}

RECURSIVE SeqsOfLen(_, _)
SeqsOfLen(S, n) ==
    IF n = 0 THEN {<<>>}
    ELSE {Append(q, x) : q \in SeqsOfLen(S, n - 1), x \in S}

\* the CSV files: at most MaxCsvRows records
CsvFiles == UNION {SeqsOfLen(Records, n) : n \in 0..MaxCsvRows}

\* the SurveyResponse objects the cleaner makes of records
ResponseOf(rec) == clean_raw_row_to_survey_response(StagedRow(rec)).value[1]

Responses ==
    {ResponseOf(rec) :
        rec \in {rec_teen, rec_adult, rec_older, rec_nan_hours, rec_big_anxiety}}

NoCriteria == FilterCriteria(<<>>, <<>>, <<>>, <<>>, <<>>, <<>>, <<>>, <<>>, <<>>, <<>>)

\* the filter of test_get_clean_responses_filtered_applies_all_filters, on the
\* adult
AllFilters ==
    FilterCriteria(<<g_25_34>>, <<b_Apple_Music>>, <<b_Rock>>, <<b_Improve>>,
                   <<FALSE>>, <<FALSE>>, <<FALSE>>, <<FALSE>>, <<FALSE>>, <<h_1_3>>)

\* the criteria of the queries: one field set, or the fields of AllFilters
Criteria ==
    {NoCriteria, AllFilters,
     [NoCriteria EXCEPT !.age_group = <<g_25_34>>, !.while_working = <<FALSE>>]}
    \cup {[NoCriteria EXCEPT !.age_group = <<g>>] :
                g \in {g_under_18, g_18_24, g_25_34, g_unknown}}
    \cup {[NoCriteria EXCEPT !.streaming_service = <<t>>] :
                t \in {b_Spotify, b_spotify}}
    \cup {[NoCriteria EXCEPT !.favourite_genre = <<b_Rock>>],
          [NoCriteria EXCEPT !.music_effects = <<b_Improve>>],
          [NoCriteria EXCEPT !.while_working = <<TRUE>>],
          [NoCriteria EXCEPT !.while_working = <<FALSE>>],
          [NoCriteria EXCEPT !.exploratory = <<FALSE>>],
          [NoCriteria EXCEPT !.foreign_languages = <<TRUE>>],
          [NoCriteria EXCEPT !.instrumentalist = <<TRUE>>],
          [NoCriteria EXCEPT !.composer = <<FALSE>>]}
    \cup {[NoCriteria EXCEPT !.hours_bucket = <<t>>] :
                t \in {h_le_1, h_1_3, h_gt_3, h_unknown}}

NotAnInt == [t |-> "str", v |-> 0]
Limits == {NoLimit, IntLimit(1), IntLimit(2), IntLimit(0), IntLimit(-1), NotAnInt}

Init ==
    /\ InitDb
    /\ arg = NoArg
    /\ ret = NotRun

\* DatabaseManager.connect() followed by create_tables()
connect ==
    /\ ~connection
    /\ connection' = TRUE
    /\ last' = [op |-> "connect", raised |-> "none"]
    /\ UNCHANGED <<db, disk, arg, app, insights, ret>>

\* DatabaseManager.close(): what was not committed is rolled back
close ==
    /\ connection' = FALSE
    /\ db' = IF connection THEN disk ELSE db
    /\ last' = [op |-> "close", raised |-> "none"]
    /\ UNCHANGED <<disk, arg, app, insights, ret>>

\* ingest_csv_into_raw_database(csv_path, db_manager)
ingest_csv_into_raw_database ==
    \E csv \in CsvFiles :
        /\ Len(db.RawResponses) + Len(csv) <= MaxRaw
        /\ \E o \in {IF connection THEN ingest_rows(Conn(db, disk), csv)
                     ELSE IF csv = <<>> THEN Outcome(Conn(db, disk), Returned(<<>>))
                     ELSE Outcome(Conn(db, disk), NoConnection)} :
               /\ db' = o.db
               /\ disk' = o.disk
               /\ last' = [op |-> "ingest", raised |-> o.raised,
                           records |-> Len(csv),
                           before |-> Len(db.RawResponses)]
        /\ UNCHANGED <<connection, arg, app, insights, ret>>

\* clean_raw_responses_into_database(db_manager)
clean_raw_responses_into_database ==
    /\ db.autoinc.Respondents + Len(db.RawResponses) <= MaxRespondents
    /\ \E o \in {IF connection
                  THEN clean_raw_responses_into_database_run(Conn(db, disk))
                  ELSE Outcome(Conn(db, disk), NoConnection)} :
           /\ db' = o.db
           /\ disk' = o.disk
           /\ last' = [op |-> "clean", raised |-> o.raised, value |-> o.value,
                       before |-> [respondents |-> Len(db.Respondents),
                                   autoinc |-> db.autoinc.Respondents]]
    /\ UNCHANGED <<connection, arg, app, insights, ret>>

\* DatabaseManager.insert_survey_response(response)
InsertSurveyResponse ==
    \E response \in Responses :
        /\ db.autoinc.Respondents < MaxRespondents
        /\ \E o \in {IF connection
                      THEN insert_survey_response(Conn(db, disk), response)
                      ELSE Outcome(Conn(db, disk), NoConnection)} :
               /\ db' = o.db
               /\ disk' = o.disk
               /\ last' = [op |-> "insert", raised |-> o.raised, value |-> o.value]
        /\ UNCHANGED <<connection, arg, app, insights, ret>>

\* DatabaseManager.delete_respondent_and_health_stats(respondent_id)
DeleteRespondent ==
    \E respondent_id \in 1..MaxRespondents :
        /\ \E o \in {IF connection
                      THEN delete_respondent_and_health_stats(Conn(db, disk),
                                                              respondent_id)
                      ELSE Outcome(Conn(db, disk), NoConnection)} :
               /\ db' = o.db
               /\ disk' = o.disk
               /\ last' = [op |-> "delete", raised |-> o.raised, id |-> respondent_id,
                           removed |-> Len(db.Respondents) - Len(o.db.Respondents)]
        /\ UNCHANGED <<connection, arg, app, insights, ret>>

\* DatabaseManager.get_clean_responses_filtered(criteria, limit)
GetCleanResponsesFiltered ==
    \E criteria \in Criteria, limit \in Limits :
        /\ \/ limit = NoLimit
           \/ criteria = NoCriteria
           \/ (criteria = [NoCriteria EXCEPT !.while_working = <<FALSE>>]
                    /\ limit = IntLimit(1))
        /\ \E result \in {IF connection
                           THEN get_clean_responses_filtered(db, criteria, limit)
                           ELSE NoConnection} :
               last' = [op |-> "query", raised |-> result.raised,
                        value |-> result.value, criteria |-> criteria,
                        limit |-> limit]
        /\ UNCHANGED <<connection, db, disk, arg, app, insights, ret>>

\* DatabaseManager.get_all_clean_responses()
GetAllCleanResponses ==
    /\ \E result \in {IF connection THEN get_all_clean_responses(db) ELSE NoConnection} :
           last' = [op |-> "all", raised |-> result.raised, value |-> result.value]
    /\ UNCHANGED <<connection, db, disk, arg, app, insights, ret>>

\* the pipeline on one database file
Next ==
    \/ connect
    \/ close
    \/ ingest_csv_into_raw_database
    \/ clean_raw_responses_into_database

Spec == Init /\ [][Next]_vars

\* the curated store on one database file
NextStore ==
    \/ connect
    \/ close
    \/ InsertSurveyResponse
    \/ DeleteRespondent

SpecStore == Init /\ [][NextStore]_vars

\* queries on the curated store of one connection
NextQuery ==
    \/ connect
    \/ InsertSurveyResponse
    \/ DeleteRespondent
    \/ GetCleanResponsesFiltered
    \/ GetAllCleanResponses

SpecQuery == Init /\ [][NextQuery]_vars

----------------------------------------------------------------------------
(* The pipeline and the curated store *)

\* the staged rows that the cleaner accepts, of the table as it is
AcceptedStaged(d) ==
    {i \in 1..Len(d.RawResponses) :
        LET cleaned == clean_raw_row_to_survey_response(
                           json_loads(d.RawResponses[i].raw_json))
        IN  cleaned.raised = "none" /\ cleaned.value # <<>>}

HealthStatsOf(d, id) == {i \in 1..Len(d.HealthStats) : d.HealthStats[i].respondent_id = id}

\* every Respondents row has exactly one HealthStats row, and every HealthStats
\* row is the row of a respondent
Paired(d) ==
    /\ \A i \in 1..Len(d.Respondents) :
            Cardinality(HealthStatsOf(d, d.Respondents[i].id)) = 1
    /\ \A i \in 1..Len(d.HealthStats) :
            \E j \in 1..Len(d.Respondents) :
                d.Respondents[j].id = d.HealthStats[i].respondent_id

\* C1: on an open connection, for any staging contents,
\* clean_raw_responses_into_database returns a summary with raw_total the number
\* of staged rows, cleaned_inserted the number of them that clean, and
\* cleaned_dropped the rest, and the curated store grows by cleaned_inserted
\* respondents, each with its HealthStats row.
C1_CleanSummary ==
    (last.op = "clean" /\ last.raised # "RuntimeError") =>
        /\ last.raised = "none"
        /\ last.value.raw_total = Len(db.RawResponses)
        /\ last.value.cleaned_inserted = Cardinality(AcceptedStaged(db))
        /\ last.value.cleaned_dropped =
                Len(db.RawResponses) - Cardinality(AcceptedStaged(db))
        /\ Len(db.Respondents) = last.before.respondents + last.value.cleaned_inserted
        /\ \A i \in 1..Len(db.Respondents) :
                db.Respondents[i].id > last.before.autoinc =>
                    Cardinality(HealthStatsOf(db, db.Respondents[i].id)) = 1

\* C2: after a cleaning run that returns, every staged row that failed cleaning
\* has a RejectedRows entry with its raw payload and a reason, and there are at
\* least cleaned_dropped entries.
C2_RejectedRowsRecorded ==
    (last.op = "clean" /\ last.raised = "none") =>
        /\ get_rejected_row_count(db) >= last.value.cleaned_dropped
        /\ \A i \in (1..Len(db.RawResponses)) \ AcceptedStaged(db) :
                \E j \in 1..Len(db.RejectedRows) :
                    /\ db.RejectedRows[j].raw_payload = db.RawResponses[i].raw_json
                    /\ db.RejectedRows[j].reason # <<>>

\* C3: on an open connection a cleaning run never aborts, whatever rows are
\* staged: it returns its summary.
C3_CleanNeverAborts ==
    last.op = "clean" => last.raised \in {"none", "RuntimeError"}

\* C4: on an open connection staging stores one RawResponses row for every
\* record of the CSV file, and no record keeps the records after it from being
\* staged.
C4_StagingAppendsEveryRecord ==
    (last.op = "ingest" /\ last.raised # "RuntimeError") =>
        /\ last.raised = "none"
        /\ Len(db.RawResponses) = last.before + last.records

\* C9: insert_survey_response is atomic: on the connection and in the database
\* file, every Respondents row has exactly one HealthStats row and every
\* HealthStats row belongs to a respondent, also after an insert that raised
\* and a later commit.
C9_InsertAtomic == Paired(db) /\ Paired(disk)

\* the age groups, as the ages of the respondents that are in them
AgeGroupOf(age) ==
    CASE age = IntOf(17) -> g_under_18
      [] age \in {IntOf(25), IntOf(34)} -> g_25_34

\* the hours buckets, as the hours of the respondents that are in them
BucketOf(hours) ==
    CASE hours = float(b_1_0).value -> h_le_1
      [] hours = float(b_3_0).value -> h_1_3
      [] hours = float(b_4_2).value -> h_gt_3

KnownGroups == {g_under_18, g_18_24, g_25_34, g_35_44, g_45_54, g_55_plus}
KnownBuckets == {h_le_1, h_1_3, h_gt_3}

\* a curated respondent satisfies every criterion that is set
Matches(criteria, r) ==
    /\ criteria.age_group # <<>> => AgeGroupOf(r.age) = criteria.age_group[1]
    /\ criteria.streaming_service # <<>> =>
            r.primary_streaming_service = criteria.streaming_service[1]
    /\ criteria.favourite_genre # <<>> => r.fav_genre = criteria.favourite_genre[1]
    /\ criteria.music_effects # <<>> => r.music_effects = criteria.music_effects[1]
    /\ criteria.while_working # <<>> => r.while_working = criteria.while_working[1]
    /\ criteria.exploratory # <<>> => r.exploratory = criteria.exploratory[1]
    /\ criteria.foreign_languages # <<>> =>
            r.foreign_languages = criteria.foreign_languages[1]
    /\ criteria.instrumentalist # <<>> => r.instrumentalist = criteria.instrumentalist[1]
    /\ criteria.composer # <<>> => r.composer = criteria.composer[1]
    /\ criteria.hours_bucket # <<>> => BucketOf(r.hours_per_day) = criteria.hours_bucket[1]

\* the curated respondents: the Respondents rows that have their HealthStats
\* row, as the SurveyResponse objects they were inserted from, by ascending id
RECURSIVE CuratedFrom(_, _)
CuratedFrom(d, i) ==
    IF i > Len(d.Respondents) THEN <<>>
    ELSE LET hs == HealthStatsOf(d, d.Respondents[i].id) IN
         (IF hs = {} THEN <<>>
          ELSE LET h == d.HealthStats[CHOOSE k \in hs : TRUE] IN
               <<database_row_to_survey_response(d.Respondents[i], h)>>)
         \o CuratedFrom(d, i + 1)

Curated(d) == CuratedFrom(d, 1)

\* C10: without a limit and with criteria of known age groups and hours
\* buckets, get_clean_responses_filtered returns exactly the curated
\* respondents that satisfy every criterion that is set (the age in the
\* inclusive range of the group, strings equal to the letter, booleans equal,
\* false too, hours in the bucket), and all of them when nothing is set.
C10_FilteredQueryExact ==
    (/\ last.op = "query" /\ last.raised # "RuntimeError" /\ last.limit = NoLimit
     /\ last.criteria.age_group # <<>> => last.criteria.age_group[1] \in KnownGroups
     /\ last.criteria.hours_bucket # <<>> => last.criteria.hours_bucket[1] \in KnownBuckets)
    => /\ last.raised = "none"
       /\ last.value = SelectSeq(Curated(db), LAMBDA r : Matches(last.criteria, r))

\* a query with a false boolean and an age group that keeps the respondent of
\* 25 and leaves out the respondent of 17
C10_Witness ==
    /\ last.op = "query" /\ last.raised = "none" /\ last.limit = NoLimit
    /\ last.criteria.age_group = <<g_25_34>>
    /\ last.criteria.while_working = <<FALSE>>
    /\ Len(last.value) = 1
    /\ last.value[1].age = IntOf(25)
    /\ \E i \in 1..Len(db.Respondents) : db.Respondents[i].age = IntOf(17)

----------------------------------------------------------------------------
(* Hours buckets: the query side and the analytics side *)

InsightsService_hours_bucket_exclusive(hours) ==
    IF FloatLt(hours, FloatOf(1)) THEN h_le_1
    ELSE IF FloatLe(hours, FloatOf(3)) THEN h_1_3
    ELSE h_gt_3

\* InsightsService._hours_bucket(hours)
InsightsService_hours_bucket(hours) ==
    IF FloatLe(hours, FloatOf(1)) THEN h_le_1
    ELSE IF FloatLe(hours, FloatOf(3)) THEN h_1_3
    ELSE h_gt_3

\* AnalysisEngine._bucket_hours(hours)
AnalysisEngine_bucket_hours(hours) ==
    IF FloatLe(hours, FloatOf(1)) THEN h_le_1
    ELSE IF FloatLe(hours, FloatOf(3)) THEN h_1_3
    ELSE h_gt_3

\* the texts of the hours of the respondents: both edges, both sides of each,
\* a negative value, the infinities, and nan, which the store refuses
HoursTexts ==
    {b_dot5, b_1_0, b_2_0, b_3_0, b_4_2, b_minus1_5, b_inf, b_minus_inf, b_nan}

\* the respondent of rec_teen with other hours
WithHours(text) == [ResponseOf(rec_teen) EXCEPT !.hours_per_day = float(text).value]

\* insert_survey_response of a respondent with the hours of a text
InsertHours ==
    \E text \in HoursTexts :
        /\ db.autoinc.Respondents < MaxHoursRows
        /\ \E o \in {IF connection
                      THEN insert_survey_response(Conn(db, disk), WithHours(text))
                      ELSE Outcome(Conn(db, disk), NoConnection)} :
               /\ db' = o.db
               /\ disk' = o.disk
               /\ last' = [op |-> "insert", raised |-> o.raised, value |-> o.value]
        /\ UNCHANGED <<connection, arg, app, insights, ret>>

\* get_clean_responses_filtered(FilterCriteria(hours_bucket=bucket))
QueryBucket ==
    \E bucket \in {h_le_1, h_1_3, h_gt_3} :
        /\ \E result \in {IF connection
                           THEN get_clean_responses_filtered(
                                    db, [NoCriteria EXCEPT !.hours_bucket = <<bucket>>],
                                    NoLimit)
                           ELSE NoConnection} :
               last' = [op |-> "query", raised |-> result.raised,
                        value |-> result.value,
                        criteria |-> [NoCriteria EXCEPT !.hours_bucket = <<bucket>>],
                        limit |-> NoLimit]
        /\ UNCHANGED <<connection, db, disk, arg, app, insights, ret>>

\* respondents of every hours value, queried by bucket
NextBuckets ==
    \/ connect
    \/ InsertHours
    \/ QueryBucket

SpecBuckets == Init /\ [][NextBuckets]_vars

\* the partition of the claim: h <= 1, 1 < h <= 3, h > 3
PartitionOf(hours) ==
    CASE hours \in {float(b_dot5).value, float(b_1_0).value, float(b_minus1_5).value,
                    float(b_minus_inf).value} -> h_le_1
      [] hours \in {float(b_2_0).value, float(b_3_0).value} -> h_1_3
      [] hours \in {float(b_4_2).value, float(b_inf).value} -> h_gt_3

\* C11: a stored respondent is returned by the filter hours_bucket = b exactly
\* when InsightsService._hours_bucket and AnalysisEngine._bucket_hours map its
\* hours to b, and b is the bucket of the partition h <= 1, 1 < h <= 3, h > 3.
C11_HoursBucketsAgree ==
    (last.op = "query" /\ last.raised = "none" /\ last.criteria.hours_bucket # <<>>) =>
        \A i \in 1..Len(db.Respondents) :
            LET hours == db.Respondents[i].hours_per_day
                returned == \E k \in 1..Len(last.value) :
                                last.value[k].hours_per_day = hours
            IN  /\ returned <=> InsightsService_hours_bucket(hours) = last.criteria.hours_bucket[1]
                /\ returned <=> AnalysisEngine_bucket_hours(hours) = last.criteria.hours_bucket[1]
                /\ returned <=> PartitionOf(hours) = last.criteria.hours_bucket[1]

\* hours 1.0, 4.2 and 2.0 filtered by '>3' yield only 4.2
C11_Witness ==
    /\ last.op = "query" /\ last.raised = "none"
    /\ last.criteria.hours_bucket = <<h_gt_3>>
    /\ [i \in 1..Len(db.Respondents) |-> db.Respondents[i].hours_per_day]
            = <<float(b_1_0).value, float(b_4_2).value, float(b_2_0).value>>
    /\ Len(last.value) = 1
    /\ last.value[1].hours_per_day = float(b_4_2).value

----------------------------------------------------------------------------
(* Order and limit of the listings *)

\* the matching curated respondents in insertion order, the first n of them
FirstMatching(d, criteria, n) ==
    LET matching == SelectSeq(Curated(d), LAMBDA r : Matches(criteria, r)) IN
    SubSeq(matching, 1, IF n < Len(matching) THEN n ELSE Len(matching))

\* C12: the rows of the store are in ascending id, which is insertion order;
\* get_all_clean_responses returns the curated respondents in that order; the
\* filtered query with limit L returns the first min(L, m) of the m matching
\* respondents in that order, and a limit that is zero, negative or not an
\* integer raises ValueError.
C12_OrderAndLimit ==
    /\ \A i, j \in 1..Len(db.Respondents) :
            i < j => db.Respondents[i].id < db.Respondents[j].id
    /\ (last.op = "all" /\ last.raised # "RuntimeError") =>
            last.raised = "none" /\ last.value = Curated(db)
    /\ (/\ last.op = "query" /\ last.raised # "RuntimeError"
        /\ last.criteria.age_group # <<>> => last.criteria.age_group[1] \in KnownGroups
        /\ last.criteria.hours_bucket # <<>> =>
                last.criteria.hours_bucket[1] \in KnownBuckets)
       => IF last.limit.t = "none"
          THEN /\ last.raised = "none"
               /\ last.value = FirstMatching(db, last.criteria, Len(db.Respondents))
          ELSE IF last.limit.t = "int" /\ last.limit.v > 0
          THEN /\ last.raised = "none"
               /\ last.value = FirstMatching(db, last.criteria, last.limit.v)
          ELSE last.raised = "ValueError"

\* after a delete of the first respondent, a query with limit 1 on two curated
\* respondents returns the earlier one
C12_Witness ==
    /\ last.op = "query" /\ last.raised = "none" /\ last.limit = IntLimit(1)
    /\ Len(db.Respondents) = 2 /\ Len(Curated(db)) = 2
    /\ db.Respondents[1].id = 2
    /\ Curated(db)[1] # Curated(db)[2]
    /\ last.value = <<Curated(db)[1]>>

----------------------------------------------------------------------------
(* Round trip through the curated store *)

\* the responses of the records with every hours text and both values of a
\* flag: bpm None (rec_adult), infinite hours, and responses the store refuses
\* (hours nan, a score of 2^63)
RoundTripResponses(records, texts) ==
    {[ResponseOf(rec) EXCEPT !.hours_per_day = float(text).value, !.composer = flag] :
        rec \in records, text \in texts, flag \in BOOLEAN}

InitRoundTrip ==
    /\ InitDb
    /\ arg \in {[kind |-> "response", response |-> r] :
                    r \in RoundTripResponses({rec_teen, rec_adult, rec_older,
                                              rec_big_anxiety}, HoursTexts)}
    /\ ret = NotRun

\* insert_survey_response(r)
RoundTripInsert ==
    /\ db.autoinc.Respondents < MaxRoundTrips
    /\ \E o \in {IF connection
                  THEN insert_survey_response(Conn(db, disk), arg.response)
                  ELSE Outcome(Conn(db, disk), NoConnection)} :
           /\ db' = o.db
           /\ disk' = o.disk
           /\ last' = [op |-> "insert", raised |-> o.raised, value |-> o.value]
    /\ UNCHANGED <<connection, arg, app, insights, ret>>

\* get_clean_responses_filtered(FilterCriteria())
RoundTripRead ==
    /\ ret' = IF connection THEN get_clean_responses_filtered(db, NoCriteria, NoLimit)
              ELSE NoConnection
    /\ last' = [op |-> "read", raised |-> "none"]
    /\ UNCHANGED <<connection, db, disk, arg, app, insights>>

NextRoundTrip ==
    \/ connect
    \/ RoundTripInsert
    \/ RoundTripRead

SpecRoundTrip == InitRoundTrip /\ [][NextRoundTrip]_vars

----------------------------------------------------------------------------
(* Deleting a respondent *)

\* the INSERT INTO RejectedRows of the data-quality tests, committed
insert_rejected_row(c, raw_row_id, reason, raw_payload) ==
    LET id == c.db.autoinc.RejectedRows + 1
        d1 == [c.db EXCEPT !.RejectedRows =
                        Append(@, [id |-> id, raw_row_id |-> raw_row_id,
                                   reason |-> reason,
                                   raw_payload |-> json_dumps(raw_payload)]),
                           !.autoinc.RejectedRows = id]
    IN  Outcome(Commit(Conn(d1, c.disk)), Returned(id))

r_missing_age == <<"m","i","s","s","i","n","g"," ","a","g","e">>
r_invalid_score == <<"i","n","v","a","l","i","d"," ","s","c","o","r","e">>
r_missing == <<"m","i","s","s","i","n","g">>
r_Missing_age == <<"M","i","s","s","i","n","g"," ","a","g","e">>

\* DatabaseManager.insert_raw_response(raw_row, error=None)
InsertRawResponse ==
    /\ connection
    /\ Len(db.RawResponses) < MaxLogRows
    /\ \E o \in {insert_raw_response(Conn(db, disk), DictReader(ValidRecord), Null)} :
           /\ db' = o.db
           /\ disk' = o.disk
           /\ last' = [op |-> "stage", raised |-> o.raised]
    /\ UNCHANGED <<connection, arg, app, insights, ret>>

\* one rejected row written as the data-quality tests write it
LogRejectedRow ==
    /\ connection
    /\ Len(db.RejectedRows) < MaxLogRows
    /\ \E o \in {insert_rejected_row(Conn(db, disk), Null, r_missing_age,
                                     DictReader(ValidRecord))} :
           /\ db' = o.db
           /\ disk' = o.disk
           /\ last' = [op |-> "reject", raised |-> o.raised]
    /\ UNCHANGED <<connection, arg, app, insights, ret>>

NextDelete ==
    \/ connect
    \/ InsertSurveyResponse
    \/ InsertRawResponse
    \/ LogRejectedRow
    \/ DeleteRespondent

SpecDelete == Init /\ [][NextDelete]_vars

\* C14: a delete that returns removes the Respondents row with the id and
\* every HealthStats row that references it, and leaves every other row, the
\* staged raw rows, the rejection log and the id counters as they were; for
\* an id no row has, nothing changes and nothing is raised.
C14_DeleteFrame ==
    [][(last'.op = "delete" /\ connection) =>
          /\ last'.raised = "none"
          /\ db'.Respondents =
                SelectSeq(db.Respondents, LAMBDA row : row.id # last'.id)
          /\ db'.HealthStats =
                SelectSeq(db.HealthStats, LAMBDA h : h.respondent_id # last'.id)
          /\ \A k \in 1..Len(db'.HealthStats) : db'.HealthStats[k].respondent_id # last'.id
          /\ db'.RawResponses = db.RawResponses
          /\ db'.RejectedRows = db.RejectedRows
          /\ db'.autoinc = db.autoinc
          /\ ((\A k \in 1..Len(db.Respondents) : db.Respondents[k].id # last'.id)
                 /\ (\A k \in 1..Len(db.HealthStats) :
                        db.HealthStats[k].respondent_id # last'.id)
              => db' = db)]_vars

\* a delete removed one respondent with its health stats while another
\* respondent, a staged row and a rejected row stayed
C14_Witness ==
    /\ last.op = "delete" /\ last.raised = "none" /\ last.removed = 1
    /\ Len(db.Respondents) = 1
    /\ Len(db.HealthStats) = 1
    /\ db.HealthStats[1].respondent_id = db.Respondents[1].id
    /\ db.autoinc.HealthStats = 2
    /\ Len(db.RawResponses) = 1
    /\ Len(db.RejectedRows) = 1

\* a delete of an id that no row has left the store as it was
C14_WitnessAbsent ==
    /\ last.op = "delete" /\ last.raised = "none" /\ last.removed = 0
    /\ Len(db.Respondents) = 2

----------------------------------------------------------------------------
(* Rejection reasons *)

\* the characters of the reasons in code point order
CodeOrder == <<" ">> \o DigitChars \o UpperLetters \o LowerLetters

code_point(c) == CHOOSE i \in 1..Len(CodeOrder) : CodeOrder[i] = c

\* the BINARY collation of a TEXT column: a < b
RECURSIVE TextLess(_, _)
TextLess(a, b) ==
    IF b = <<>> THEN FALSE
    ELSE IF a = <<>> THEN TRUE
    ELSE IF Head(a) = Head(b) THEN TextLess(Tail(a), Tail(b))
    ELSE code_point(Head(a)) < code_point(Head(b))

\* COUNT(*) of the group of a reason
reason_count(rows, reason) ==
    Cardinality({k \in 1..Len(rows) : rows[k].reason = reason})

OrderedBeforeByReason(rows, a, b) == TextLess(a, b)

\* ORDER BY reason_count DESC, reason ASC
OrderedBefore(rows, a, b) ==
    \/ reason_count(rows, a) > reason_count(rows, b)
    \/ reason_count(rows, a) = reason_count(rows, b) /\ TextLess(a, b)

RECURSIVE OrderBy(_, _)
OrderBy(rows, reasons) ==
    IF reasons = {} THEN <<>>
    ELSE LET first == CHOOSE a \in reasons :
                          \A b \in reasons \ {a} : OrderedBefore(rows, a, b)
         IN  <<first>> \o OrderBy(rows, reasons \ {first})

\* the GROUP BY reason query with its LIMIT, as (reason, count) pairs
TopReasons(rows, ordered, limit) ==
    [k \in 1..(IF limit < Len(ordered) THEN limit ELSE Len(ordered)) |->
        <<ordered[k], reason_count(rows, ordered[k])>>]

\* DatabaseManager.get_top_rejection_reasons(limit)
get_top_rejection_reasons(connected, d, limit) ==
    IF limit <= 0 THEN Raised("ValueError")
    ELSE IF ~connected THEN NoConnection
    ELSE Returned(TopReasons(d.RejectedRows,
                             OrderBy(d.RejectedRows,
                                     {d.RejectedRows[k].reason :
                                        k \in 1..Len(d.RejectedRows)}),
                             limit))

RejectionReasons == {r_missing_age, r_invalid_score, r_missing, r_Missing_age}

TopLimits == -1..3

\* one rejected row with a reason, written as the data-quality tests write it
RecordRejection ==
    /\ connection
    /\ Len(db.RejectedRows) < MaxRejected
    /\ \E reason \in RejectionReasons :
         \E o \in {insert_rejected_row(Conn(db, disk), Null, reason,
                                       [Age |-> Str(b_empty)])} :
           /\ db' = o.db
           /\ disk' = o.disk
           /\ last' = [op |-> "reject", raised |-> o.raised]
    /\ UNCHANGED <<connection, arg, app, insights, ret>>

GetTopRejectionReasons ==
    /\ \E limit \in TopLimits :
         \E result \in {get_top_rejection_reasons(connection, db, limit)} :
            last' = [op |-> "top", raised |-> result.raised,
                     value |-> result.value, limit |-> limit]
    /\ UNCHANGED <<connection, db, disk, arg, app, insights, ret>>

NextRejections ==
    \/ connect
    \/ RecordRejection
    \/ GetTopRejectionReasons

SpecRejections == Init /\ [][NextRejections]_vars

\* the number of rejected rows with a reason
Occurrences(reason) ==
    Cardinality({k \in 1..Len(db.RejectedRows) : db.RejectedRows[k].reason = reason})

\* (reason, count) pair p comes strictly before pair q: larger count first,
\* equal counts by reason ascending
Precedes(p, q) == p[2] > q[2] \/ (p[2] = q[2] /\ TextLess(p[1], q[1]))

LoggedReasons == {db.RejectedRows[k].reason : k \in 1..Len(db.RejectedRows)}

\* C15: get_top_rejection_reasons(limit) raises for limit <= 0; otherwise it
\* returns min(limit, number of distinct reasons) pairs, each a logged reason
\* with the number of rows that have it, strictly ordered by count descending
\* then reason ascending, and every reason left out comes after every pair
\* returned.
C15_TopReasons ==
    (last.op = "top") =>
        IF last.limit <= 0 THEN last.raised = "ValueError"
        ELSE connection =>
            /\ last.raised = "none"
            /\ Len(last.value) = IF last.limit < Cardinality(LoggedReasons)
                                 THEN last.limit ELSE Cardinality(LoggedReasons)
            /\ \A k \in 1..Len(last.value) :
                  /\ last.value[k][1] \in LoggedReasons
                  /\ last.value[k][2] = Occurrences(last.value[k][1])
                  /\ \A j \in 1..(k - 1) : Precedes(last.value[j], last.value[k])
                  /\ \A reason \in LoggedReasons :
                        (\A j \in 1..Len(last.value) : last.value[j][1] # reason)
                            => Precedes(last.value[k], <<reason, Occurrences(reason)>>)

\* reasons missing age, missing age, invalid score with limit 2
C15_Witness ==
    /\ last.op = "top" /\ last.limit = 2
    /\ Len(db.RejectedRows) = 3
    /\ db.RejectedRows[1].reason = r_missing_age
    /\ db.RejectedRows[2].reason = r_missing_age
    /\ db.RejectedRows[3].reason = r_invalid_score
    /\ last.value = <<<<r_missing_age, 2>>, <<r_invalid_score, 1>>>>

\* a tie on the count broken by the reason, and a reason cut off by the limit
C15_WitnessTie ==
    /\ last.op = "top" /\ last.limit = 2
    /\ Len(db.RejectedRows) = 3
    /\ db.RejectedRows[1].reason = r_missing_age
    /\ db.RejectedRows[2].reason = r_missing
    /\ db.RejectedRows[3].reason = r_Missing_age
    /\ last.value = <<<<r_Missing_age, 1>>, <<r_missing, 1>>>>

\* a limit of 0 refused
C15_WitnessRefused ==
    /\ last.op = "top" /\ last.limit = 0 /\ last.raised = "ValueError"
    /\ db.RejectedRows # <<>>

----------------------------------------------------------------------------
(* filters.py: request parameters *)

FilterNames ==
    {"age_group", "streaming_service", "favourite_genre", "music_effects",
     "while_working", "exploratory", "foreign_languages", "instrumentalist",
     "composer", "hours_bucket"}

BooleanNames ==
    {"while_working", "exploratory", "foreign_languages", "instrumentalist",
     "composer"}

StringNames == FilterNames \ BooleanNames

\* args.get(key): None when the key is absent
args_get(args, key) == IF key \in DOMAIN args THEN <<args[key]>> ELSE <<>>

normalise_str_unstripped(value) ==
    IF value = <<>> THEN <<>>
    ELSE IF strip(value[1]) = <<>> THEN <<>> ELSE value

\* _normalise_str
normalise_str(value) ==
    IF value = <<>> THEN <<>>
    ELSE IF strip(value[1]) = <<>> THEN <<>> ELSE <<strip(value[1])>>

parse_bool_lenient(value) ==
    IF value = <<>> THEN Returned(<<>>)
    ELSE IF lower(strip(value[1])) = b_yes THEN Returned(<<TRUE>>)
    ELSE IF lower(strip(value[1])) = <<"n","o">> THEN Returned(<<FALSE>>)
    ELSE Returned(<<>>)

\* _parse_bool
parse_bool(value) ==
    IF value = <<>> THEN Returned(<<>>)
    ELSE IF lower(strip(value[1])) = b_yes THEN Returned(<<TRUE>>)
    ELSE IF lower(strip(value[1])) = <<"n","o">> THEN Returned(<<FALSE>>)
    ELSE IF lower(strip(value[1])) = <<>> THEN Returned(<<>>)
    ELSE Raised("ValueError")

\* cls(...) once the five boolean arguments are evaluated, in their order
criteria_of(args, while_working, exploratory, foreign_languages, instrumentalist, composer) ==
    IF HasRaised(<<while_working, exploratory, foreign_languages, instrumentalist,
                   composer>>)
    THEN Raised("ValueError")
    ELSE Returned(FilterCriteria(normalise_str(args_get(args, "age_group")),
                                 normalise_str(args_get(args, "streaming_service")),
                                 normalise_str(args_get(args, "favourite_genre")),
                                 normalise_str(args_get(args, "music_effects")),
                                 while_working.value, exploratory.value,
                                 foreign_languages.value, instrumentalist.value,
                                 composer.value,
                                 normalise_str(args_get(args, "hours_bucket"))))

\* FilterCriteria.from_request_args(args) for a mapping args
from_request_args(args) ==
    criteria_of(args, parse_bool(args_get(args, "while_working")),
                parse_bool(args_get(args, "exploratory")),
                parse_bool(args_get(args, "foreign_languages")),
                parse_bool(args_get(args, "instrumentalist")),
                parse_bool(args_get(args, "composer")))

f_no == <<"n","o">>
f_NO == <<"N","O">>
f_yEs == <<"y","E","s">>
f_yess == <<"y","e","s","s">>
f_yes_no == <<"y","e","s"," ","n","o">>
f_Focus == <<"F","o","c","u","s">>
f_New_Wave == <<"N","e","w"," ","W","a","v","e">>

\* values of one request parameter
FilterBodies ==
    {b_empty, b_yes, b_Yes, b_YES, f_yEs, f_no, b_No, f_NO, b_maybe, b_true, b_1,
     f_yess, f_yes_no, b_Spotify, f_Focus, f_New_Wave, h_1_3, h_le_1, h_unknown,
     g_18_24, g_unknown}

\* the request parameters of test_from_request_args_normalises_values
NormalisesValuesArgs ==
    [name \in FilterNames |->
        CASE name = "age_group" -> b_empty
          [] name = "streaming_service" -> <<" ">> \o b_Spotify \o <<" ">>
          [] name = "favourite_genre" -> b_empty
          [] name = "music_effects" -> f_Focus
          [] name = "while_working" -> b_yes
          [] name = "exploratory" -> f_no
          [] name = "foreign_languages" -> b_YES
          [] name = "instrumentalist" -> f_NO
          [] name = "composer" -> b_empty
          [] name = "hours_bucket" -> <<" ">> \o h_1_3 \o <<" ">>]

\* request parameters: none, those of the test, one parameter with a padded
\* value, and two boolean parameters
FilterArgsCases(pads) ==
    {[name \in {} |-> b_empty], NormalisesValuesArgs}
    \cup {[name \in {key} |-> lead \o body \o trail] :
            key \in FilterNames, body \in FilterBodies, lead \in pads, trail \in pads}
    \cup {[name \in {"while_working", "composer"} |->
                IF name = "while_working" THEN first ELSE second] :
            first \in {b_yes, f_NO, b_maybe}, second \in {b_Yes, b_empty, b_true}}

InitFilters ==
    /\ InitDb
    /\ arg \in {[kind |-> "args", args |-> args] : args \in FilterArgsCases(Pads)}
    /\ ret = NotRun

ParseFilters ==
    /\ ret = NotRun
    /\ arg.kind = "args"
    /\ ret' = from_request_args(arg.args)
    /\ UNCHANGED <<arg, dbvars>>

NextFilters == ParseFilters

SpecFilters == InitFilters /\ [][NextFilters]_vars

\* only whitespace, or nothing
IsBlank(v) == \A i \in 1..Len(v) : v[i] \in Whitespace

\* v is the text t with whitespace before and after it
TrimmedTo(v, t) ==
    \E i \in 0..Len(v) :
        /\ i + Len(t) <= Len(v)
        /\ SubSeq(v, i + 1, i + Len(t)) = t
        /\ IsBlank(SubSeq(v, 1, i))
        /\ IsBlank(SubSeq(v, i + Len(t) + 1, Len(v)))

\* yes and no in every casing
YesForms == {<<a, b, c>> : a \in {"y", "Y"}, b \in {"e", "E"}, c \in {"s", "S"}}
NoForms == {<<a, b>> : a \in {"n", "N"}, b \in {"o", "O"}}

SaysYes(v) == \E t \in YesForms : TrimmedTo(v, t)
SaysNo(v) == \E t \in NoForms : TrimmedTo(v, t)

\* what a boolean parameter of the request stands for
TriStateOf(args, name) ==
    IF name \notin DOMAIN args THEN <<>>
    ELSE IF SaysYes(args[name]) THEN <<TRUE>>
    ELSE IF SaysNo(args[name]) THEN <<FALSE>>
    ELSE <<>>

AcceptedBoolean(args, name) ==
    \/ name \notin DOMAIN args
    \/ IsBlank(args[name])
    \/ SaysYes(args[name])
    \/ SaysNo(args[name])

\* C16 as stated: a boolean parameter that is not one of the strings 'yes',
\* 'no' and '' makes the parse raise.
C16_ExactVocabulary ==
    (ret # NotRun) =>
        \A name \in BooleanNames \cap DOMAIN arg.args :
            arg.args[name] \notin {b_yes, f_no, b_empty} => ret.raised = "ValueError"

\* C16: the five boolean parameters are accepted exactly when each is absent
\* or, with surrounding whitespace dropped and case ignored, is 'yes', 'no' or
\* empty; then each field is true, false or unset accordingly, and otherwise
\* the parse raises ValueError and produces no FilterCriteria.
C16_NormalisedVocabulary ==
    (ret # NotRun) =>
        IF \A name \in BooleanNames : AcceptedBoolean(arg.args, name)
        THEN /\ ret.raised = "none"
             /\ \A name \in BooleanNames :
                    /\ ret.value[name] = TriStateOf(arg.args, name)
                    /\ ret.value[name] \in {<<>>, <<TRUE>>, <<FALSE>>}
        ELSE ret = Raised("ValueError")

\* ' YES ' accepted as true
C16_Witness ==
    /\ ret.raised = "none"
    /\ DOMAIN arg.args = {"composer"}
    /\ arg.args["composer"] = <<" ">> \o b_YES \o <<" ">>
    /\ ret.value.composer = <<TRUE>>

\* 'maybe' next to a valid parameter refused
C16_WitnessRefused ==
    /\ ret = Raised("ValueError")
    /\ DOMAIN arg.args = {"while_working", "composer"}
    /\ arg.args["while_working"] = b_yes
    /\ arg.args["composer"] = b_true

\* C17: a parsed request has every string parameter that is absent, empty or
\* whitespace-only unset and every other one kept with the surrounding
\* whitespace dropped; boolean tokens count in any casing; FilterCriteria()
\* has its ten fields unset.
C17_Normalises ==
    /\ DOMAIN NoCriteria = FilterNames
    /\ \A name \in FilterNames : NoCriteria[name] = <<>>
    /\ (ret # NotRun /\ arg.args = <<>>) => ret = Returned(NoCriteria)
    /\ (ret # NotRun /\ ret.raised = "none") =>
          /\ \A name \in StringNames :
                IF name \notin DOMAIN arg.args \/ IsBlank(arg.args[name])
                THEN ret.value[name] = <<>>
                ELSE /\ ret.value[name] # <<>>
                     /\ ret.value[name][1] # <<>>
                     /\ Head(ret.value[name][1]) \notin Whitespace
                     /\ ret.value[name][1][Len(ret.value[name][1])] \notin Whitespace
                     /\ TrimmedTo(arg.args[name], ret.value[name][1])
          /\ \A name \in BooleanNames \cap DOMAIN arg.args :
                /\ arg.args[name] \in YesForms => ret.value[name] = <<TRUE>>
                /\ arg.args[name] \in NoForms => ret.value[name] = <<FALSE>>
                /\ arg.args[name] = b_empty => ret.value[name] = <<>>

\* the request of test_from_request_args_normalises_values parsed
C17_Witness ==
    /\ arg.args = NormalisesValuesArgs
    /\ ret = Returned(FilterCriteria(<<>>, <<b_Spotify>>, <<>>, <<f_Focus>>, <<TRUE>>,
                                     <<FALSE>>, <<TRUE>>, <<FALSE>>, <<>>, <<h_1_3>>))

\* a whitespace-only string parameter left unset
C17_WitnessBlank ==
    /\ ret = Returned(NoCriteria)
    /\ DOMAIN arg.args = {"favourite_genre"}
    /\ arg.args["favourite_genre"] = <<" ", "\t">>

----------------------------------------------------------------------------
(* A filtered request: app.py parses the parameters and runs the query *)

\* criteria = _parse_filter_criteria(); get_clean_responses_filtered(criteria)
filtered_request(d, parsed) ==
    IF parsed.raised # "none" THEN parsed
    ELSE get_clean_responses_filtered(d, parsed.value, NoLimit)

\* requests with one parameter, valid or not, and the request without any
RequestArgs ==
    {[name \in {} |-> b_empty]}
    \cup {[name \in {key} |-> body] :
            key \in BooleanNames, body \in {f_no, b_maybe}}
    \cup {[name \in {"hours_bucket"} |-> body] : body \in {h_1_3, h_unknown}}
    \cup {[name \in {"age_group"} |-> body] : body \in {g_18_24, g_unknown}}

FilteredRequest ==
    /\ \E args \in RequestArgs :
         \E result \in {IF connection
                        THEN filtered_request(db, from_request_args(args))
                        ELSE IF from_request_args(args).raised # "none"
                             THEN from_request_args(args)
                             ELSE NoConnection} :
            last' = [op |-> "request", raised |-> result.raised,
                     value |-> result.value, args |-> args]
    /\ UNCHANGED <<connection, db, disk, arg, app, insights, ret>>

NextRequest ==
    \/ connect
    \/ InsertSurveyResponse
    \/ FilteredRequest

SpecRequest == Init /\ [][NextRequest]_vars

\* the values a restricted parameter may take
Vocabulary(name) ==
    IF name \in BooleanNames THEN YesForms \cup NoForms
    ELSE IF name = "hours_bucket" THEN KnownBuckets
    ELSE KnownGroups

\* C18: a request with a value outside the vocabulary of a boolean parameter,
\* of hours_bucket or of age_group ends in an error.
C18_InvalidValueBlocks ==
    (last.op = "request") =>
        \A name \in (BooleanNames \cup {"hours_bucket", "age_group"})
                        \cap DOMAIN last.args :
            (~IsBlank(last.args[name])
                /\ \A word \in Vocabulary(name) : ~TrimmedTo(last.args[name], word))
            => last.raised # "none"

----------------------------------------------------------------------------
(* models.py: score distribution *)

m_anxiety == <<"a","n","x","i","e","t","y">>
m_depression == <<"d","e","p","r","e","s","s","i","o","n">>
m_insomnia == <<"i","n","s","o","m","n","i","a">>
m_ocd == <<"o","c","d">>
m_OCD_padded == <<" ","O","C","D"," ">>
m_mood == <<"m","o","o","d">>

\* AnalysisEngine.METRIC_FIELDS
METRIC_FIELDS ==
    [key \in {m_anxiety, m_depression, m_insomnia, m_ocd} |->
        CASE key = m_anxiety -> "anxiety_score"
          [] key = m_depression -> "depression_score"
          [] key = m_insomnia -> "insomnia_score"
          [] key = m_ocd -> "ocd_score"]

metric_attr_defaulted(metric) ==
    IF lower(strip(metric)) \notin DOMAIN METRIC_FIELDS THEN Returned("anxiety_score")
    ELSE Returned(METRIC_FIELDS[lower(strip(metric))])

\* AnalysisEngine._metric_attr
metric_attr(metric) ==
    IF lower(strip(metric)) \notin DOMAIN METRIC_FIELDS THEN Raised("ValueError")
    ELSE Returned(METRIC_FIELDS[lower(strip(metric))])

\* {score: 0 for score in range(0, 11)}
ZeroDistribution == [score \in {IntOf(k) : k \in 0..10} |-> 0]

\* distribution[value] = distribution.get(value, 0) + 1
counted(distribution, value) ==
    [score \in DOMAIN distribution \cup {value} |->
        IF score = value
        THEN (IF value \in DOMAIN distribution THEN distribution[value] ELSE 0) + 1
        ELSE distribution[score]]

RECURSIVE score_counts(_, _, _)
score_counts(distribution, dataset, attr) ==
    IF dataset = <<>> THEN distribution
    ELSE score_counts(counted(distribution, Head(dataset)[attr]), Tail(dataset), attr)

\* AnalysisEngine.get_score_distribution(metric, responses)
get_score_distribution(metric, dataset) ==
    IF metric_attr(metric).raised # "none" THEN metric_attr(metric)
    ELSE Returned(score_counts(ZeroDistribution, dataset, metric_attr(metric).value))

b_10 == <<"1","0">>
b_11 == <<"1","1">>

\* the respondent of rec_teen with an Anxiety of 0, 5, 10, 11 or -3, as the
\* cleaner returns it
ScoredResponses ==
    {ResponseOf([rec_teen EXCEPT ![14] = text]) :
        text \in {b_0, b_5, b_10, b_11, b_minus3}}

m_anxiety_score == m_anxiety \o <<"_","s","c","o","r","e">>

Metrics ==
    {m_anxiety, m_depression, m_insomnia, m_ocd, m_OCD_padded, m_mood, m_anxiety_score,
     b_empty}

\* AnalysisEngine.get_top_genres(responses, top_n): the favourite genres with
\* their counts, by count descending then genre ascending, the first top_n
engine_get_top_genres(responses, top_n) ==
    TopReasons([i \in 1..Len(responses) |-> [reason |-> responses[i].fav_genre]],
               OrderBy([i \in 1..Len(responses) |-> [reason |-> responses[i].fav_genre]],
                       {responses[i].fav_genre : i \in 1..Len(responses)}),
               top_n)

\* InsightsService.get_top_genres(top_n=top_n) over the responses
get_top_genres(responses, top_n) ==
    IF top_n <= 0 THEN Raised("ValueError")
    ELSE Returned(engine_get_top_genres(responses, top_n))

\* a cleaned row inserted by clean_raw_responses_into_database
InsertScored ==
    /\ connection
    /\ db.autoinc.Respondents < MaxScored
    /\ \E response \in ScoredResponses :
         \E o \in {insert_survey_response(Conn(db, disk), response)} :
            /\ db' = o.db
            /\ disk' = o.disk
            /\ last' = [op |-> "insert", raised |-> o.raised, value |-> o.value]
    /\ UNCHANGED <<connection, arg, app, insights, ret>>

\* InsightsService.get_score_distribution(metric) on the curated store
GetScoreDistribution ==
    /\ connection
    /\ \E metric \in Metrics :
         \E result \in {get_score_distribution(metric, get_all_clean_responses(db).value)} :
            last' = [op |-> "distribution", raised |-> result.raised,
                     value |-> result.value, metric |-> metric]
    /\ UNCHANGED <<connection, db, disk, arg, app, insights, ret>>

\* InsightsService.get_top_genres(top_n=top_n) on the curated store
GetTopGenres ==
    /\ connection
    /\ \E top_n \in -1..2 :
         \E result \in {get_top_genres(get_all_clean_responses(db).value, top_n)} :
            last' = [op |-> "top_genres", raised |-> result.raised,
                     value |-> result.value, top_n |-> top_n]
    /\ UNCHANGED <<connection, db, disk, arg, app, insights, ret>>

NextScores ==
    \/ connect
    \/ InsertScored
    \/ GetScoreDistribution
    \/ GetTopGenres

SpecScores == Init /\ [][NextScores]_vars

\* C19: the key set of a score distribution over the curated store is exactly
\* {0, ..., 10}.
C19_DistributionKeys ==
    (last.op = "distribution" /\ last.raised = "none") =>
        DOMAIN last.value = {IntOf(k) : k \in 0..10}

----------------------------------------------------------------------------
(* services.py: mean scores per group *)

RECURSIVE mag_value(_)
mag_value(mag) ==
    IF mag = <<>> THEN 0 ELSE 10 * mag_value(SubSeq(mag, 1, Len(mag) - 1)) + mag[Len(mag)]

\* the number a Python int stands for
int_value(i) == IF i.neg THEN 0 - mag_value(i.mag) ELSE mag_value(i.mag)

RECURSIVE gcd(_, _)
gcd(a, b) == IF b = 0 THEN a ELSE gcd(b, a % b)

\* a quotient of a sum of small integers by a positive count, in lowest terms
Quotient(sum, n) ==
    [num |-> sum \div gcd(IF sum < 0 THEN 0 - sum ELSE sum, n),
     den |-> n \div gcd(IF sum < 0 THEN 0 - sum ELSE sum, n)]

mean_of_sum(sum, n) == Quotient(sum, 1)

\* n = stats["n"] or 1; stats[..._mean] = stats[..._sum] / n
mean_of(sum, n) == Quotient(sum, IF n = 0 THEN 1 ELSE n)

t_Unknown == <<"U","n","k","n","o","w","n">>

\* the key functions of get_mean_scores_by_genre, _by_music_effects and
\* _by_hours_bucket
key_func(by, response) ==
    CASE by = "genre" ->
            IF response.fav_genre = <<>> THEN t_Unknown ELSE response.fav_genre
      [] by = "effect" ->
            IF response.music_effects = <<>> THEN t_Unknown ELSE response.music_effects
      [] by = "bucket" -> InsightsService_hours_bucket(response.hours_per_day)

NewStats ==
    [n |-> 0, anxiety_sum |-> 0, depression_sum |-> 0, insomnia_sum |-> 0,
     ocd_sum |-> 0]

\* stats = grouped.setdefault(key, {...}); stats["n"] += 1; the four sums
added(grouped, key, response) ==
    [k \in DOMAIN grouped \cup {key} |->
        IF k # key THEN grouped[k]
        ELSE [n |-> (IF key \in DOMAIN grouped THEN grouped[key] ELSE NewStats).n + 1,
              anxiety_sum |->
                (IF key \in DOMAIN grouped THEN grouped[key] ELSE NewStats).anxiety_sum
                    + int_value(response.anxiety_score),
              depression_sum |->
                (IF key \in DOMAIN grouped THEN grouped[key] ELSE NewStats).depression_sum
                    + int_value(response.depression_score),
              insomnia_sum |->
                (IF key \in DOMAIN grouped THEN grouped[key] ELSE NewStats).insomnia_sum
                    + int_value(response.insomnia_score),
              ocd_sum |->
                (IF key \in DOMAIN grouped THEN grouped[key] ELSE NewStats).ocd_sum
                    + int_value(response.ocd_score)]]

RECURSIVE grouped_sums(_, _, _)
grouped_sums(grouped, responses, by) ==
    IF responses = <<>> THEN grouped
    ELSE grouped_sums(added(grouped, key_func(by, Head(responses)), Head(responses)),
                      Tail(responses), by)

\* the second loop: the means in, the sums out
with_means(grouped) ==
    [k \in DOMAIN grouped |->
        [n |-> grouped[k].n,
         anxiety_mean |-> mean_of(grouped[k].anxiety_sum, grouped[k].n),
         depression_mean |-> mean_of(grouped[k].depression_sum, grouped[k].n),
         insomnia_mean |-> mean_of(grouped[k].insomnia_sum, grouped[k].n),
         ocd_mean |-> mean_of(grouped[k].ocd_sum, grouped[k].n)]]

\* InsightsService._group_mean_stats(responses, key_func)
group_mean_stats(responses, by) == with_means(grouped_sums(<<>>, responses, by))

\* respondents that differ in genre, effect, hours and scores; one has no
\* genre and no effect
GroupRecords ==
    {rec_teen, rec_adult, rec_older,
     [rec_teen EXCEPT ![4] = b_inf, ![8] = b_empty, ![14] = b_10, ![15] = b_0,
                      ![18] = b_empty]}

GroupCases(len) ==
    {[kind |-> "group", responses |-> q, by |-> by] :
        q \in UNION {SeqsOfLen({ResponseOf(rec) : rec \in GroupRecords}, n) : n \in 0..len},
        by \in {"genre", "effect", "bucket"}}

InitGroups ==
    /\ InitDb
    /\ arg \in GroupCases(MaxGroupLen)
    /\ ret = NotRun

GroupMeanStats ==
    /\ ret = NotRun
    /\ arg.kind = "group"
    /\ ret' = Returned(group_mean_stats(arg.responses, arg.by))
    /\ UNCHANGED <<arg, dbvars>>

NextGroups == GroupMeanStats

SpecGroups == InitGroups /\ [][NextGroups]_vars

\* the group a response belongs to
GroupOf(by, response) ==
    CASE by = "genre" ->
            IF Len(response.fav_genre) = 0 THEN t_Unknown ELSE response.fav_genre
      [] by = "effect" ->
            IF Len(response.music_effects) = 0 THEN t_Unknown ELSE response.music_effects
      [] by = "bucket" ->
            IF response.hours_per_day = float(b_inf).value THEN h_gt_3
            ELSE PartitionOf(response.hours_per_day)

\* the positions of the responses of a group
Members(key) ==
    {i \in 1..Len(arg.responses) : GroupOf(arg.by, arg.responses[i]) = key}

RECURSIVE Total(_, _)
Total(positions, field) ==
    IF positions = {} THEN 0
    ELSE LET i == CHOOSE i \in positions : TRUE
         IN  int_value(arg.responses[i][field]) + Total(positions \ {i}, field)

RECURSIVE TotalN(_, _)
TotalN(groups, keys) ==
    IF keys = {} THEN 0
    ELSE LET k == CHOOSE k \in keys : TRUE
         IN  groups[k].n + TotalN(groups, keys \ {k})

IsMean(mean, sum, n) == mean.den > 0 /\ mean.num * n = sum * mean.den

\* C20: the groups returned are the keys of the responses; each group's n is
\* the number of responses with its key and is never 0, the n's add up to
\* len(responses), and each mean is the group's score sum divided by its n.
C20_GroupsPartition ==
    (ret # NotRun /\ arg.kind = "group") =>
        /\ ret.raised = "none"
        /\ DOMAIN ret.value = {GroupOf(arg.by, arg.responses[i]) :
                                 i \in 1..Len(arg.responses)}
        /\ TotalN(ret.value, DOMAIN ret.value) = Len(arg.responses)
        /\ \A key \in DOMAIN ret.value :
              /\ ret.value[key].n = Cardinality(Members(key))
              /\ ret.value[key].n > 0
              /\ DOMAIN ret.value[key] =
                    {"n", "anxiety_mean", "depression_mean", "insomnia_mean", "ocd_mean"}
              /\ IsMean(ret.value[key].anxiety_mean,
                        Total(Members(key), "anxiety_score"), ret.value[key].n)
              /\ IsMean(ret.value[key].depression_mean,
                        Total(Members(key), "depression_score"), ret.value[key].n)
              /\ IsMean(ret.value[key].insomnia_mean,
                        Total(Members(key), "insomnia_score"), ret.value[key].n)
              /\ IsMean(ret.value[key].ocd_mean,
                        Total(Members(key), "ocd_score"), ret.value[key].n)

\* three responses in two groups, one with a mean that is not an integer
C20_Witness ==
    /\ ret # NotRun /\ arg.kind = "group" /\ arg.by = "genre"
    /\ Len(arg.responses) = 3
    /\ DOMAIN ret.value = {t_Unknown, b_Classical}
    /\ ret.value[t_Unknown].n = 1
    /\ ret.value[b_Classical].n = 2
    /\ ret.value[t_Unknown].anxiety_mean = [num |-> 10, den |-> 1]

\* two responses with different scores in one bucket: an insomnia mean of 5/2
C20_WitnessMean ==
    /\ ret # NotRun /\ arg.kind = "group" /\ arg.by = "bucket"
    /\ Len(arg.responses) = 3
    /\ DOMAIN ret.value = {h_gt_3, h_le_1}
    /\ ret.value[h_gt_3].n = 2
    /\ ret.value[h_gt_3].insomnia_mean = [num |-> 5, den |-> 2]

----------------------------------------------------------------------------
(* services.py: correlation of hours per day with the scores *)

\* A float in the arithmetic of the correlation: a finite value as a quotient
\* n / d in lowest terms, an infinity with its sign in n, or nan. Finite
\* arithmetic is exact here; the infinities and nan follow IEEE 754.
XFin(n, d) ==
    [k |-> "fin", n |-> n \div gcd(IF n < 0 THEN 0 - n ELSE n, d),
     d |-> d \div gcd(IF n < 0 THEN 0 - n ELSE n, d)]
XInf(sign) == [k |-> "inf", n |-> sign, d |-> 1]
XNaN == [k |-> "nan", n |-> 0, d |-> 1]

RECURSIVE TenTo(_)
TenTo(e) == IF e = 0 THEN 1 ELSE 10 * TenTo(e - 1)

XOfFloat(f) ==
    CASE f.kind = "nan" -> XNaN
      [] f.kind = "inf" -> XInf(IF f.neg THEN 0 - 1 ELSE 1)
      [] f.kind = "fin" ->
            XFin((IF f.neg THEN 0 - 1 ELSE 1) * mag_value(f.ip \o f.fp), TenTo(Len(f.fp)))

XOfInt(i) == XFin(int_value(i), 1)

XSign(a) == IF a.n > 0 THEN 1 ELSE IF a.n < 0 THEN 0 - 1 ELSE 0

XNeg(a) == [a EXCEPT !.n = 0 - a.n]

XAdd(a, b) ==
    CASE a.k = "nan" \/ b.k = "nan" -> XNaN
      [] a.k = "inf" /\ b.k = "inf" -> IF a.n = b.n THEN a ELSE XNaN
      [] a.k = "inf" -> a
      [] b.k = "inf" -> b
      [] OTHER -> XFin(a.n * b.d + b.n * a.d, a.d * b.d)

XSub(a, b) == XAdd(a, XNeg(b))

XMul(a, b) ==
    CASE a.k = "nan" \/ b.k = "nan" -> XNaN
      [] a.k = "inf" \/ b.k = "inf" ->
            IF XSign(a) * XSign(b) = 0 THEN XNaN ELSE XInf(XSign(a) * XSign(b))
      [] OTHER -> XFin(a.n * b.n, a.d * b.d)

XDiv(a, b) ==
    CASE a.k = "nan" \/ b.k = "nan" -> XNaN
      [] a.k = "inf" /\ b.k = "inf" -> XNaN
      [] a.k = "inf" -> XInf(XSign(a) * (IF b.n < 0 THEN 0 - 1 ELSE 1))
      [] b.k = "inf" -> XFin(0, 1)
      [] OTHER -> XFin(a.n * b.d * XSign(b), a.d * b.n * XSign(b))

\* sum(...) of a sequence, from the int 0
RECURSIVE XSum(_)
XSum(values) ==
    IF values = <<>> THEN XFin(0, 1)
    ELSE XAdd(XSum(SubSeq(values, 1, Len(values) - 1)), values[Len(values)])

\* x == 0: false for nan and for an infinity
XIsZero(a) == a.k = "fin" /\ a.n = 0

\* cov / (denom_x ** 0.5 * denom_y ** 0.5) for non-zero denominators; a finite
\* r is given by its sign and its square
pearson_quotient(cov, denom_x, denom_y) ==
    IF cov.k = "fin" /\ denom_x.k = "fin" /\ denom_y.k = "fin"
    THEN [k |-> "fin", n |-> XSign(cov) * XDiv(XMul(cov, cov), XMul(denom_x, denom_y)).n,
          d |-> XDiv(XMul(cov, cov), XMul(denom_x, denom_y)).d]
    ELSE XDiv(cov, XMul(denom_x, denom_y))

\* if denom_x == 0 or denom_y == 0: return None
pearson_checked(cov, denom_x, denom_y) ==
    IF XIsZero(denom_x) \/ XIsZero(denom_y) THEN <<>>
    ELSE <<pearson_quotient(cov, denom_x, denom_y)>>

pearson_about(xs, ys, mean_x, mean_y) ==
    pearson_checked(
        XSum([i \in 1..Len(xs) |-> XMul(XSub(xs[i], mean_x), XSub(ys[i], mean_y))]),
        XSum([i \in 1..Len(xs) |-> XMul(XSub(xs[i], mean_x), XSub(xs[i], mean_x))]),
        XSum([i \in 1..Len(ys) |-> XMul(XSub(ys[i], mean_y), XSub(ys[i], mean_y))]))

\* InsightsService._pearson_correlation(xs, ys): None or a float
pearson_correlation(xs, ys) ==
    IF Len(xs) < 2 THEN <<>>
    ELSE pearson_about(xs, ys, XDiv(XSum(xs), XFin(Len(xs), 1)),
                       XDiv(XSum(ys), XFin(Len(ys), 1)))

\* InsightsService.get_correlations_hours_vs_scores() over the responses
get_correlations_hours_vs_scores(responses) ==
    [name \in DOMAIN METRIC_FIELDS |->
        [n |-> Len(responses),
         r |-> IF Len(responses) < 2 THEN <<>>
               ELSE pearson_correlation(
                        [i \in 1..Len(responses) |-> XOfFloat(responses[i].hours_per_day)],
                        [i \in 1..Len(responses) |->
                            XOfInt(responses[i][METRIC_FIELDS[name]])])]]

\* the respondent of rec_teen with hours 1.0, 3.0 or inf and an Anxiety of 2
\* or 5, as the cleaner returns it
ObservedResponses ==
    {ResponseOf([rec_teen EXCEPT ![4] = hours, ![14] = anxiety]) :
        hours \in {b_1_0, b_3_0, b_inf}, anxiety \in {b_2, b_5}}

\* a cleaned row inserted by clean_raw_responses_into_database
InsertObserved ==
    /\ connection
    /\ db.autoinc.Respondents < MaxObserved
    /\ \E response \in ObservedResponses :
         \E o \in {insert_survey_response(Conn(db, disk), response)} :
            /\ db' = o.db
            /\ disk' = o.disk
            /\ last' = [op |-> "insert", raised |-> o.raised, value |-> o.value]
    /\ UNCHANGED <<connection, arg, app, insights, ret>>

GetCorrelations ==
    /\ connection
    /\ \E result \in {get_correlations_hours_vs_scores(get_all_clean_responses(db).value)} :
          last' = [op |-> "correlations", raised |-> "none", value |-> result]
    /\ UNCHANGED <<connection, db, disk, arg, app, insights, ret>>

NextCorrelations ==
    \/ connect
    \/ InsertObserved
    \/ GetCorrelations

SpecCorrelations == Init /\ [][NextCorrelations]_vars

\* every stored respondent has the same value in a field
ConstantSeries(field) ==
    \A i, j \in 1..Len(db.Respondents) :
        IF field = "hours_per_day"
        THEN db.Respondents[i].hours_per_day = db.Respondents[j].hours_per_day
        ELSE db.HealthStats[i][field] = db.HealthStats[j][field]

StoredColumn(name) ==
    CASE name = m_anxiety -> "anxiety"
      [] name = m_depression -> "depression"
      [] name = m_insomnia -> "insomnia"
      [] name = m_ocd -> "ocd"

\* C21: each of the four metrics has an entry whose n is the number of
\* respondents; r is never NaN, and it is null when there are fewer than two
\* respondents or the hours or the scores are constant.
C21_CorrelationNull ==
    (last.op = "correlations") =>
        /\ DOMAIN last.value = {m_anxiety, m_depression, m_insomnia, m_ocd}
        /\ \A name \in DOMAIN last.value :
              /\ last.value[name].n = Len(db.Respondents)
              /\ last.value[name].r # <<XNaN>>
              /\ (Len(db.Respondents) < 2 \/ ConstantSeries("hours_per_day")
                    \/ ConstantSeries(StoredColumn(name)))
                 => last.value[name].r = <<>>

----------------------------------------------------------------------------
(* Contract violations of the analytics calls *)

\* the metric arguments that name one of the four metrics
NamesAMetric == {m_anxiety, m_depression, m_insomnia, m_ocd, m_OCD_padded}

\* C22: get_score_distribution with an argument that names none of anxiety,
\* depression, insomnia, ocd raises ValueError and returns nothing, and
\* returns a distribution otherwise; get_top_genres with top_n <= 0 raises
\* ValueError and returns nothing, and returns a list otherwise.
C22_ContractViolationsRaise ==
    /\ (last.op = "distribution") =>
          IF last.metric \in NamesAMetric
          THEN last.raised = "none" /\ DOMAIN last.value # {}
          ELSE last.raised = "ValueError" /\ last.value = <<>>
    /\ (last.op = "top_genres") =>
          IF last.top_n <= 0
          THEN last.raised = "ValueError" /\ last.value = <<>>
          ELSE last.raised = "none"

\* an unknown metric refused on a store with two respondents
C22_Witness ==
    /\ last.op = "distribution" /\ last.metric = m_mood
    /\ last.raised = "ValueError"
    /\ Len(db.Respondents) = 2

\* top_n = 0 refused on a store with two respondents
C22_WitnessTopN ==
    /\ last.op = "top_genres" /\ last.top_n = 0
    /\ last.raised = "ValueError"
    /\ Len(db.Respondents) = 2

----------------------------------------------------------------------------
(* DatabaseManager without a connection *)

\* create_tables on an open connection whose tables exist: CREATE TABLE IF
\* NOT EXISTS, then commit
create_tables(c) == Outcome(Commit(c), Returned(<<>>))

\* update_primary_streaming_service on an open connection
update_primary_streaming_service(c, respondent_id, new_service) ==
    Outcome(Commit(Conn([c.db EXCEPT !.Respondents =
                            [i \in 1..Len(@) |->
                                IF @[i].id = respondent_id
                                THEN [@[i] EXCEPT !.primary_streaming_service = new_service]
                                ELSE @[i]]],
                        c.disk)),
            Returned(<<>>))

\* get_respondent_by_id on an open connection: the row or None
get_respondent_by_id(d, respondent_id) ==
    IF \E i \in 1..Len(d.Respondents) : d.Respondents[i].id = respondent_id
    THEN LET row == d.Respondents[CHOOSE i \in 1..Len(d.Respondents) :
                                        d.Respondents[i].id = respondent_id]
         IN  Returned(<<[id |-> row.id, age |-> row.age,
                         service |-> row.primary_streaming_service]>>)
    ELSE Returned(<<>>)

\* the calls made on a manager
ManagerCalls ==
    {[name |-> "create_tables"], [name |-> "get_raw_row_count"],
     [name |-> "get_clean_row_count"], [name |-> "get_rejected_row_count"],
     [name |-> "get_all_raw_responses"], [name |-> "get_all_clean_responses"],
     [name |-> "get_clean_responses_filtered"], [name |-> "insert_raw_response"],
     [name |-> "get_respondent_by_id"], [name |-> "update_primary_streaming_service"],
     [name |-> "delete_respondent_and_health_stats"]}
    \cup {[name |-> "insert_survey_response", response |-> ResponseOf(rec)] :
            rec \in {rec_teen, rec_big_anxiety}}
    \cup {[name |-> "get_top_rejection_reasons", limit |-> limit] : limit \in {0, 1}}

\* a call on a manager that holds a connection
connected_call(c, call) ==
    CASE call.name = "create_tables" -> create_tables(c)
      [] call.name = "get_raw_row_count" -> Outcome(c, Returned(get_raw_row_count(c.db)))
      [] call.name = "get_clean_row_count" ->
            Outcome(c, Returned(get_respondent_count(c.db)))
      [] call.name = "get_rejected_row_count" ->
            Outcome(c, Returned(get_rejected_row_count(c.db)))
      [] call.name = "get_all_raw_responses" ->
            Outcome(c, Returned(get_all_raw_responses(c.db)))
      [] call.name = "get_all_clean_responses" -> Outcome(c, get_all_clean_responses(c.db))
      [] call.name = "get_clean_responses_filtered" ->
            Outcome(c, get_clean_responses_filtered(c.db, NoCriteria, NoLimit))
      [] call.name = "insert_raw_response" ->
            insert_raw_response(c, DictReader(ValidRecord), Null)
      [] call.name = "get_respondent_by_id" -> Outcome(c, get_respondent_by_id(c.db, 1))
      [] call.name = "update_primary_streaming_service" ->
            update_primary_streaming_service(c, 1, b_Apple_Music)
      [] call.name = "delete_respondent_and_health_stats" ->
            delete_respondent_and_health_stats(c, 1)
      [] call.name = "insert_survey_response" -> insert_survey_response(c, call.response)
      [] call.name = "get_top_rejection_reasons" ->
            Outcome(c, get_top_rejection_reasons(TRUE, c.db, call.limit))

\* the guard clause of every data operation: without a connection it raises
\* before any statement runs
manager_call(connected, c, call) ==
    IF connected THEN connected_call(c, call)
    ELSE IF call.name = "get_top_rejection_reasons"
    THEN Outcome(c, get_top_rejection_reasons(FALSE, c.db, call.limit))
    ELSE Outcome(c, NoConnection)

ManagerCall ==
    /\ \E call \in ManagerCalls :
         /\ call.name = "insert_survey_response" => db.autoinc.Respondents < MaxRoundTrips
         /\ call.name = "insert_raw_response" => db.autoinc.RawResponses < MaxLogRows
         /\ \E o \in {manager_call(connection, Conn(db, disk), call)} :
               /\ db' = o.db
               /\ disk' = o.disk
               /\ last' = [op |-> "call", raised |-> o.raised, name |-> call.name]
    /\ UNCHANGED <<connection, arg, app, insights, ret>>

NextLifecycle ==
    \/ connect
    \/ close
    \/ ManagerCall

SpecLifecycle == Init /\ [][NextLifecycle]_vars

\* C23: a data operation on a manager without a connection raises and leaves
\* the store as it was; close() without a connection changes nothing, and
\* after any close() the manager holds no connection.
C23_NoConnectionRaises ==
    [][/\ (~connection /\ last'.op = "call") =>
              /\ last'.raised # "none"
              /\ db' = db /\ disk' = disk /\ ~connection'
       /\ (~connection /\ last'.op = "close") => (db' = db /\ disk' = disk)
       /\ (last'.op = "close") => ~connection']_vars

\* an insert refused after close() on a store that holds a respondent
C23_Witness ==
    /\ ~connection
    /\ last.op = "call" /\ last.name = "insert_survey_response"
    /\ last.raised = "RuntimeError"
    /\ Len(db.Respondents) = 1 /\ db = disk

----------------------------------------------------------------------------
(* app.py: the request-scoped manager and the bootstrap *)

\* the file at CSV_PATH
rec_neg_hours == [rec_teen EXCEPT ![4] = b_minus1_5]

AppCsvFiles ==
    UNION {SeqsOfLen({rec_teen, rec_empty_age, rec_nan_hours, rec_neg_hours}, n) :
                n \in 0..MaxCsvRows}

\* clean_raw_responses_into_database(manager), reached when staging returned
bootstrap_cleaning(staged) ==
    IF staged.raised # "none" THEN staged
    ELSE clean_raw_responses_into_database_run(Conn(staged.db, staged.disk))

\* get_db_manager past connect() and create_tables(): the pipeline runs when
\* the curated store holds no respondent
bootstrap(c, csv) ==
    IF get_respondent_count(c.db) = 0
    THEN bootstrap_cleaning(ingest_rows(c, csv))
    ELSE Outcome(c, Returned(<<>>))

\* the application between two requests: g is flask.g.db_manager, made the
\* number of managers constructed, open the managers that hold a connection,
\* runs the number of times the pipeline was started
IdleApp(csv) ==
    [active |-> FALSE, failed |-> FALSE, g |-> <<>>, made |-> 0, open |-> {},
     runs |-> 0, csv |-> csv]

InitRequests ==
    /\ connection = FALSE
    /\ db = EmptyStore
    /\ disk = EmptyStore
    /\ last = [op |-> "none"]
    /\ arg = NoArg
    /\ ret = NotRun
    /\ insights = NoService
    /\ app \in {IdleApp(csv) : csv \in AppCsvFiles}

\* a request arrives: flask.g is empty
BeginRequest ==
    /\ ~app.active
    /\ app' = [app EXCEPT !.active = TRUE]
    /\ last' = [op |-> "begin", raised |-> "none"]
    /\ UNCHANGED <<connection, db, disk, arg, ret, insights>>

\* get_db_manager(): the manager of flask.g, or a new connected manager that
\* is stored on flask.g once the bootstrap has returned
GetDbManager ==
    /\ app.active /\ ~app.failed
    /\ IF app.g # <<>>
       THEN /\ last' = [op |-> "get_db_manager", raised |-> "none",
                        manager |-> app.g[1], fresh |-> FALSE]
            /\ UNCHANGED <<connection, db, disk, app>>
       ELSE /\ app.made < MaxManagers
            /\ \E o \in {bootstrap(Commit(Conn(disk, disk)), app.csv)} :
                 /\ db' = o.db
                 /\ disk' = o.disk
                 /\ connection' = TRUE
                 /\ app' = [app EXCEPT
                              !.made = @ + 1,
                              !.open = @ \cup {app.made + 1},
                              !.runs = IF get_respondent_count(disk) = 0
                                       THEN @ + 1 ELSE @,
                              !.failed = o.raised # "none",
                              !.g = IF o.raised = "none" THEN <<app.made + 1>> ELSE @]
                 /\ last' = [op |-> "get_db_manager", raised |-> o.raised,
                             manager |-> app.made + 1, fresh |-> TRUE]
    /\ UNCHANGED <<arg, ret, insights>>

\* the delete route: get_db_manager().delete_respondent_and_health_stats(id)
DeleteRoute ==
    /\ app.active /\ app.g # <<>>
    /\ \E respondent_id \in 1..MaxCsvRows :
         \E o \in {delete_respondent_and_health_stats(Conn(db, disk), respondent_id)} :
            /\ db' = o.db
            /\ disk' = o.disk
            /\ last' = [op |-> "delete_route", raised |-> o.raised]
    /\ UNCHANGED <<connection, arg, ret, app, insights>>

\* close_db_manager at the end of the request: the manager popped from
\* flask.g, if there is one, is closed
EndRequest ==
    /\ app.active
    /\ \E open \in {IF app.g # <<>> THEN app.open \ {app.g[1]} ELSE app.open} :
         /\ app' = [app EXCEPT !.active = FALSE, !.failed = FALSE, !.g = <<>>,
                               !.open = open]
         /\ connection' = (open # {})
    /\ db' = disk
    /\ last' = [op |-> "end", raised |-> IF app.failed THEN "error" ELSE "none"]
    /\ UNCHANGED <<disk, arg, ret, insights>>

NextRequests ==
    \/ BeginRequest
    \/ GetDbManager
    \/ DeleteRoute
    \/ EndRequest

SpecRequests == InitRequests /\ [][NextRequests]_vars

\* C24: within a request get_db_manager returns one manager; when the request
\* has ended, however it ended, no connection opened for it is still open; a
\* later request gets another manager.
C24_RequestScoped ==
    /\ ~app.active => app.open = {}
    /\ (last.op = "get_db_manager" /\ last.raised = "none") =>
            /\ app.g = <<last.manager>>
            /\ last.manager \in app.open
            /\ last.fresh => last.manager = app.made

\* the bootstrap failed in a request that has ended, and the connection of
\* its manager is still open
C24_Leaked ==
    /\ ~app.active
    /\ last.op = "end" /\ last.raised = "error"
    /\ app.open = {1}

\* C27: the pipeline is started at most once on one database.
C27_BootstrapOnce == app.runs <= 1

\* a second bootstrap over a CSV file without a valid row
C27_NoValidRow ==
    /\ app.csv = <<rec_empty_age>>
    /\ app.runs = 2
    /\ Len(disk.RawResponses) = 2

\* a second bootstrap after the only respondent was deleted: the row is staged
\* again and both staged rows are cleaned
C27_AfterDelete ==
    /\ app.csv = <<rec_teen>>
    /\ app.runs = 2
    /\ Len(disk.RawResponses) = 2
    /\ Len(disk.Respondents) = 2

----------------------------------------------------------------------------
(* Hours per day of the curated respondents *)

\* C25: no respondent of the curated store has a negative hours_per_day: a
\* staged row whose 'Hours per day' is negative is rejected by the cleaner.
C25_HoursNonNegative ==
    \A i \in 1..Len(db.Respondents) :
        FloatLe(FloatOf(0), db.Respondents[i].hours_per_day)

\* the bootstrap has stored the row whose 'Hours per day' is -1.5
C25_NegativeStored ==
    /\ app.csv = <<rec_neg_hours>>
    /\ Len(disk.Respondents) = 1
    /\ disk.Respondents[1].hours_per_day = float(b_minus1_5).value
    /\ disk.RejectedRows = <<>>

----------------------------------------------------------------------------
(* The staging table under every operation on the store *)

\* DatabaseManager.update_primary_streaming_service(respondent_id, new_service)
UpdatePrimaryStreamingService ==
    /\ \E respondent_id \in 1..MaxCsvRows :
         \E o \in {IF connection
                   THEN update_primary_streaming_service(Conn(db, disk), respondent_id,
                                                         b_Apple_Music)
                   ELSE Outcome(Conn(db, disk), NoConnection)} :
            /\ db' = o.db
            /\ disk' = o.disk
            /\ last' = [op |-> "update", raised |-> o.raised, id |-> respondent_id]
    /\ UNCHANGED <<connection, arg, app, insights, ret>>

\* DatabaseManager.get_all_raw_responses()
GetAllRawResponses ==
    /\ \E result \in {IF connection THEN Returned(get_all_raw_responses(db))
                      ELSE NoConnection} :
           last' = [op |-> "raw", raised |-> result.raised, value |-> result.value]
    /\ UNCHANGED <<connection, db, disk, arg, app, insights, ret>>

\* ingest_csv_into_raw_database(csv_path, db_manager) on a file of one record
StageRecord ==
    /\ \E rec \in {rec_teen, rec_empty_age, rec_long} :
         /\ Len(db.RawResponses) < MaxRaw
         /\ \E o \in {IF connection THEN ingest_rows(Conn(db, disk), <<rec>>)
                      ELSE Outcome(Conn(db, disk), NoConnection)} :
                /\ db' = o.db
                /\ disk' = o.disk
                /\ last' = [op |-> "ingest", raised |-> o.raised]
    /\ UNCHANGED <<connection, arg, app, insights, ret>>

NextStaging ==
    \/ connect
    \/ close
    \/ StageRecord
    \/ clean_raw_responses_into_database
    \/ DeleteRespondent
    \/ UpdatePrimaryStreamingService
    \/ GetAllRawResponses

SpecStaging == Init /\ [][NextStaging]_vars

IsPrefix(a, b) == Len(a) <= Len(b) /\ SubSeq(b, 1, Len(a)) = a

\* the payloads of the staged rows, by ascending id
AscendingPayloads(d, value) ==
    /\ Len(value) = Len(d.RawResponses)
    /\ \A i \in 1..Len(value) : value[i] = json_loads(d.RawResponses[i].raw_json)
    /\ \A i, j \in 1..Len(d.RawResponses) :
            i < j => d.RawResponses[i].id < d.RawResponses[j].id

\* C26: RawResponses only grows at its end: no operation changes or removes a
\* staged row; cleaning, curated updates and deletes, connect and close leave
\* the table as it is; get_all_raw_responses returns the payloads by
\* ascending id.
C26_RawAppendOnly ==
    [][/\ IsPrefix(db.RawResponses, db'.RawResponses)
       /\ IsPrefix(disk.RawResponses, disk'.RawResponses)
       /\ last'.op \in {"clean", "delete", "update", "raw", "connect", "close"} =>
              db'.RawResponses = db.RawResponses
       /\ (last'.op = "raw" /\ last'.raised = "none") =>
              AscendingPayloads(db, last'.value)]_vars

\* two different staged rows read back after a cleaning run and a delete
C26_Witness ==
    /\ last.op = "raw" /\ last.raised = "none"
    /\ Len(last.value) = 2
    /\ last.value[1] # last.value[2]
    /\ db.autoinc.Respondents > Len(db.Respondents)

----------------------------------------------------------------------------
(* services.py: the dataset of an InsightsService *)

\* InsightsService(data_source).__post_init__: a manager, or a list that
\* becomes the cache; reads counts the calls of get_all_clean_responses
InsightsService(data_source) ==
    IF data_source.kind = "manager"
    THEN [built |-> TRUE, db_manager |-> TRUE, cache |-> <<>>, reads |-> 0]
    ELSE [built |-> TRUE, db_manager |-> FALSE, cache |-> <<data_source.list>>,
          reads |-> 0]

criteria_has_filters_truthy(criteria) ==
    \E name \in DOMAIN criteria :
        /\ criteria[name] # <<>>
        /\ name \in BooleanNames => criteria[name][1]

\* _criteria_has_filters: any(value is not None ...)
criteria_has_filters(criteria) ==
    \E name \in DOMAIN criteria : criteria[name] # <<>>

\* what a dataset lookup leaves: the service, the result, and whether the
\* store was queried with criteria
Looked(svc, result, queried) == [service |-> svc, result |-> result, queried |-> queried]

\* _get_responses past `if self._responses_cache is None`
load_responses(svc, connected, loaded) ==
    IF ~svc.db_manager THEN Looked(svc, Raised("RuntimeError"), FALSE)
    ELSE IF ~connected THEN Looked(svc, NoConnection, FALSE)
    ELSE IF loaded.raised # "none" THEN Looked(svc, loaded, FALSE)
    ELSE Looked([svc EXCEPT !.cache = <<loaded.value>>, !.reads = @ + 1],
                Returned(loaded.value), FALSE)

\* _get_responses
get_responses(svc, connected, d) ==
    IF svc.cache = <<>> THEN load_responses(svc, connected, get_all_clean_responses(d))
    ELSE Looked(svc, Returned(svc.cache[1]), FALSE)

\* _get_responses_for(criteria); criteria is None or a FilterCriteria, which
\* is true as an object
get_responses_for(svc, connected, d, criteria) ==
    IF criteria # <<>> /\ criteria_has_filters(criteria[1])
    THEN IF ~svc.db_manager THEN Looked(svc, Raised("RuntimeError"), FALSE)
         ELSE IF ~connected THEN Looked(svc, NoConnection, TRUE)
         ELSE Looked(svc, get_clean_responses_filtered(d, criteria[1], NoLimit), TRUE)
    ELSE get_responses(svc, connected, d)

\* the data sources a service is built from
DataSources ==
    {[kind |-> "manager"], [kind |-> "list", list |-> <<>>],
     [kind |-> "list", list |-> <<ResponseOf(rec_adult)>>]}

\* the criteria passed to the service: None, no field set, one field set
ServiceCriteria ==
    {<<>>, <<NoCriteria>>,
     <<[NoCriteria EXCEPT !.while_working = <<FALSE>>]>>,
     <<[NoCriteria EXCEPT !.streaming_service = <<b_Spotify>>]>>}

\* a cleaned row inserted into the curated store
InsertCurated ==
    /\ connection
    /\ db.autoinc.Respondents < MaxScored
    /\ \E rec \in {rec_teen, rec_adult} :
         \E o \in {insert_survey_response(Conn(db, disk), ResponseOf(rec))} :
            /\ db' = o.db
            /\ disk' = o.disk
            /\ last' = [op |-> "insert", raised |-> o.raised, value |-> o.value]
    /\ UNCHANGED <<connection, arg, app, insights, ret>>

BuildService ==
    /\ ~insights.built
    /\ \E data_source \in DataSources : insights' = InsightsService(data_source)
    /\ last' = [op |-> "build", raised |-> "none"]
    /\ UNCHANGED <<connection, db, disk, arg, app, ret>>

\* an analytics call, up to the dataset it works on (get_overview and the
\* other methods start with _get_responses_for(criteria))
ServiceCall ==
    /\ insights.built
    /\ \E criteria \in ServiceCriteria :
         \E o \in {get_responses_for(insights, connection, db, criteria)} :
            /\ insights' = o.service
            /\ last' = [op |-> "service", raised |-> o.result.raised,
                        value |-> o.result.value, criteria |-> criteria,
                        queried |-> o.queried]
    /\ UNCHANGED <<connection, db, disk, arg, app, ret>>

NextService ==
    \/ connect
    \/ InsertCurated
    \/ DeleteRespondent
    \/ UpdatePrimaryStreamingService
    \/ BuildService
    \/ ServiceCall

SpecService == Init /\ [][NextService]_vars

\* the fields of the criteria that are not None
SetFields(criteria) ==
    IF criteria = <<>> THEN {}
    ELSE {name \in DOMAIN criteria[1] : criteria[1][name] # <<>>}

\* C28: one service reads the unfiltered dataset at most once and answers
\* unfiltered calls from that copy; a call with a set field (False is set)
\* queries the store as it is now; a service built from a list raises on
\* such a call.
C28_DatasetCache ==
    /\ insights.built => insights.reads <= 1
    /\ last.op = "service" =>
          IF SetFields(last.criteria) # {}
          THEN IF insights.db_manager
               THEN /\ last.queried
                    /\ connection =>
                          /\ last.raised = "none"
                          /\ last.value = get_clean_responses_filtered(
                                              db, last.criteria[1], NoLimit).value
               ELSE last.raised = "RuntimeError"
          ELSE /\ ~last.queried
               /\ last.raised = "none" =>
                     insights.cache # <<>> /\ last.value = insights.cache[1]

\* an unfiltered call answered from the copy read before the store changed
C28_Witness ==
    /\ last.op = "service" /\ last.raised = "none"
    /\ SetFields(last.criteria) = {}
    /\ insights.db_manager /\ insights.reads = 1
    /\ last.value # get_all_clean_responses(db).value

\* a call with while_working = False on a service that holds a copy
C28_WitnessFalse ==
    /\ last.op = "service" /\ last.raised = "none"
    /\ SetFields(last.criteria) = {"while_working"}
    /\ insights.db_manager /\ insights.reads = 1
    /\ last.queried
    /\ last.value # insights.cache[1]

\* a call with a set field on a service built from a list
C28_WitnessList ==
    /\ last.op = "service" /\ last.raised = "RuntimeError"
    /\ ~insights.db_manager
    /\ SetFields(last.criteria) # {}

----------------------------------------------------------------------------
(* Staging-time parsing against cleaning *)

\* the records of a CSV file: the valid record with one field replaced by a
\* text padded on one side, or cut short, or with a surplus field
RecordCases(pads) ==
    {[kind |-> "record", fields |-> [ValidRecord EXCEPT ![i] = l \o b],
      column |-> Header[i]] : i \in 1..Len(Header), b \in Bodies, l \in pads}
    \cup {[kind |-> "record", fields |-> [ValidRecord EXCEPT ![i] = b \o r],
           column |-> Header[i]] : i \in 1..Len(Header), b \in Bodies, r \in pads}
    \cup {[kind |-> "record", fields |-> SubSeq(ValidRecord, 1, n),
           column |-> Header[n + 1]] : n \in 1..(Len(Header) - 1)}
    \cup {[kind |-> "record", fields |-> Append(ValidRecord, b_EXTRA),
           column |-> NoneKey]}

InitAgreement ==
    /\ InitDb
    /\ arg \in RecordCases(Pads)
    /\ ret = NotRun

\* what the cleaning loop makes of the staged rows
cleaned_of_staged(staged) ==
    [raised |-> staged.raised,
     value |-> [rows |-> staged.db.RawResponses,
                cleaned |-> [i \in 1..Len(staged.db.RawResponses) |->
                                clean_raw_row_to_survey_response(
                                    get_all_raw_responses(staged.db)[i])],
                run |-> clean_raw_responses_into_database_run(staged)]]

\* ingest_csv_into_raw_database on a file of one record, then
\* clean_raw_responses_into_database
StageAndClean ==
    /\ ret = NotRun
    /\ arg.kind = "record"
    /\ ret' = cleaned_of_staged(ingest_rows(Commit(Conn(db, disk)), <<arg.fields>>))
    /\ UNCHANGED <<arg, dbvars>>

NextAgreement == StageAndClean

SpecAgreement == InitAgreement /\ [][NextAgreement]_vars

\* C30: a staged row has no ingestion_error exactly when the cleaner accepts
\* it.
C30_ParserAgreesWithCleaner ==
    ret # NotRun =>
        \A i \in 1..Len(ret.value.rows) :
            (ret.value.rows[i].ingestion_error = Null)
                <=> (/\ ret.value.cleaned[i].raised = "none"
                     /\ ret.value.cleaned[i].value # <<>>)

\* the record without its last field: staging notes a TypeError for
\* music_effects, the cleaner accepts the row and the run inserts it
C30_ShortRow ==
    /\ arg.kind = "record"
    /\ arg.fields = SubSeq(ValidRecord, 1, Len(Header) - 1)
    /\ ret.raised = "none"
    /\ ret.value.rows[1].ingestion_error # Null
    /\ ret.value.cleaned[1].value # <<>>
    /\ ret.value.run.value = Summary(1, 1, 0)

----------------------------------------------------------------------------
(* Cleaning runs repeated over one staging *)

\* ingest_csv_into_raw_database(csv_path, db_manager) on a file of one record
StageForRuns ==
    /\ connection
    /\ Len(db.RawResponses) < MaxRaw
    /\ \E rec \in {rec_teen, rec_adult, rec_empty_age, rec_nan_hours} :
         \E o \in {ingest_rows(Conn(db, disk), <<rec>>)} :
            /\ db' = o.db
            /\ disk' = o.disk
            /\ last' = [op |-> "ingest", raised |-> o.raised]
    /\ UNCHANGED <<connection, arg, app, insights, ret>>

\* the runs since the staging last changed
RunsSoFar == IF last.op = "run" THEN last.runs ELSE 0

\* clean_raw_responses_into_database(db_manager); base is the size of the
\* curated tables before the first of the runs, first what that run returned
CleaningRun ==
    /\ connection
    /\ RunsSoFar < MaxRuns
    /\ \E o \in {clean_raw_responses_into_database_run(Conn(db, disk))} :
         /\ db' = o.db
         /\ disk' = o.disk
         /\ last' = [op |-> "run", raised |-> o.raised, value |-> o.value,
                     runs |-> RunsSoFar + 1,
                     returned |-> (o.raised = "none")
                                    /\ (last.op = "run" => last.returned),
                     base |-> IF last.op = "run" THEN last.base
                              ELSE [respondents |-> Len(db.Respondents),
                                    health |-> Len(db.HealthStats)],
                     first |-> IF last.op = "run" THEN last.first ELSE o.value]
    /\ UNCHANGED <<connection, arg, app, insights, ret>>

NextRuns ==
    \/ connect
    \/ StageForRuns
    \/ CleaningRun

SpecRuns == Init /\ [][NextRuns]_vars

\* the staged rows that the cleaner accepts
ValidStaged(d) ==
    {i \in 1..Len(d.RawResponses) :
        clean_raw_row_to_survey_response(json_loads(d.RawResponses[i].raw_json)).value
            # <<>>}

\* k runs have added k * v rows to each curated table and returned one summary
RunsMultiplied ==
    /\ Len(db.Respondents)
          = last.base.respondents + last.runs * Cardinality(ValidStaged(db))
    /\ Len(db.HealthStats)
          = last.base.health + last.runs * Cardinality(ValidStaged(db))
    /\ last.value = last.first

\* C29: k cleaning runs over an unchanged staging with v valid rows leave
\* k * v respondents and k * v HealthStats rows more than before, and every
\* run returns the same summary.
C29_RunsMultiply ==
    last.op = "run" => (last.raised = "none" /\ RunsMultiplied)

\* the same for the runs that returned
ReturnedRunsMultiply ==
    (last.op = "run" /\ last.returned) => RunsMultiplied

\* two runs that returned over a staging with one valid and one invalid row
ReturnedTwice ==
    /\ last.op = "run" /\ last.returned /\ last.runs = 2
    /\ Len(db.RawResponses) = 2 /\ Cardinality(ValidStaged(db)) = 1
    /\ Len(db.Respondents) = 2
    /\ last.value = Summary(2, 1, 1)

\* a run over a staged row with 'Hours per day' = 'nan' has raised
C29_RunAborted ==
    /\ last.op = "run" /\ last.raised = "IntegrityError"
    /\ Cardinality(ValidStaged(db)) = 1
    /\ db.Respondents = <<>>

====
